---- MODULE Spec2Model ----
(***************************************************************************)
(* Process and application tracking engine of the resource monitor:        *)
(* AppsContext (src/src/utils/app.rs) with its process table, its app      *)
(* table and the index processes_assigned_to_apps, driven by new() and     *)
(* refresh() over successive enumerations of the OS process table.         *)
(*                                                                         *)
(* Strings are sequences of tokens (<<>> is the empty string), so that     *)
(* is_empty and starts_with are computed, not assumed.  Option<T> is a     *)
(* record with a "some" flag.  A HashMap is a function whose DOMAIN is     *)
(* its key set; a Vec is a sequence.  ProcessData carries the fields the   *)
(* engine reads: pid, commandline, memory_usage, cpu_time,                 *)
(* cpu_time_timestamp and cgroup.                                          *)
(***************************************************************************)
EXTENDS Integers, Sequences, FiniteSets, TLC

VARIABLES
    pc,                          \* where the main loop is: "setup" | "loop" | "handler" |
                                 \* "refresh" (suspended in refresh()) | "panicked"
    apps,                        \* AppsContext.apps
    processes,                   \* AppsContext.processes
    processes_assigned_to_apps,  \* AppsContext.processes_assigned_to_apps
    enumerated,                  \* the ProcessData the last Process::all has read, by pid
    clock,                       \* the OS clock the CPU samples are stamped with
    repeated,                    \* history, kept in the study of the CPU accounting: the
                                 \* last refresh() read what the call before it had read
    handling,                    \* the Action::ManipulateApp(action, id, _) being handled
    res,                         \* process_action's res: the Vec<Result<()>> of the App action
    signals,                     \* the signals the running handler has had delivered
    borrow,                      \* the borrow flag of the RefCell apps_context
    gathered,                    \* what Process::all has given to the last refresh(),
                                 \* kept in the study of the refresh loop
    returned,                    \* what that refresh() has returned
    processes_unsuccessful,      \* process_action's processes_unsuccessful
    toast_message,               \* process_action's toast_message, the toast it adds
    apps_store,                  \* the rows of the applications page
    store,                       \* ResProcesses.store, the ListStore of ProcessEntry
    open_dialog,                 \* ResProcesses.open_dialog
    confirmation,                \* the MessageDialog of execute_process_action_dialog
    channel,                     \* the messages sent to the action channel, not yet received
    response,                    \* the last response a confirmation dialog has received
    requested,                   \* the arguments of the last call of
                                 \* execute_process_action_dialog
    dmi,                         \* the output of dmidecode that get_memory_devices reads
    devices                      \* what parse_dmidecode has made of it

vars == <<pc, apps, processes, processes_assigned_to_apps, enumerated,
          repeated, clock, handling, res, signals, borrow, gathered, returned,
          processes_unsuccessful, toast_message,
          apps_store, store, open_dialog, confirmation, channel, response, requested,
          dmi, devices>>

\* the locals of process_action beside res
handler_vars == <<processes_unsuccessful, toast_message>>

\* the state of the processes page and of the action channel
page_vars ==
    <<apps_store, store, open_dialog, confirmation, channel, response, requested>>

\* the state of the reading of the memory devices
memory_vars == <<dmi, devices>>

(***************************************************************************)
(* Bounds                                                                  *)
(***************************************************************************)
MaxPid == 2

MaxClock == 1

MaxCpuTime == 1

MaxTimestamp == 2

MaxCounter == 2
MaxQueue == 2

MaxTokens == 4

Pids == 1..MaxPid

(***************************************************************************)
(* Strings and options                                                     *)
(***************************************************************************)
EmptyString == <<>>

is_empty(s) == Len(s) = 0

starts_with(s, prefix) ==
    /\ Len(s) >= Len(prefix)
    /\ SubSeq(s, 1, Len(prefix)) = prefix

None == [some |-> FALSE]

Some(x) == [some |-> TRUE, val |-> x]

\* Option<String>::as_deref().unwrap_or_default()
unwrap_or_default(opt) == IF opt.some THEN opt.val ELSE EmptyString

(***************************************************************************)
(* Installed applications (the desktop files found by App::all)            *)
(***************************************************************************)
EditorId == <<"editor">>

PortalId == <<"xdg-desktop-portal", "-gtk">>

PortalPrefix == <<"xdg-desktop-portal">>

GenericIcon == "generic-process"

\* App::from_desktop_file: an App with an empty membership list
from_desktop_file(id, name, icon) ==
    [processes |-> <<>>, display_name |-> name, description |-> None,
     icon |-> icon, id |-> id]

\* App::all
AllApps ==
    { from_desktop_file(EditorId, "Editor", "editor-icon"),
      from_desktop_file(PortalId, "Portal", "portal-icon") }

(***************************************************************************)
(* Enumerations of the OS process table (Process::all)                     *)
(***************************************************************************)
\* raw command lines as the OS stores them: arguments ended by NUL
NUL == "\\0"

CommandLines == { EmptyString, <<"sh", NUL>> }

MemoryUsages == { 50, 100 }

Cgroups == { None, Some(EditorId), Some(PortalId) }

\* The samples of a process the OS may report (without pid and timestamp).
\* A process without a command line (a kernel thread, a zombie) holds the
\* smaller amount of memory, the portal's processes come in one shape, and the
\* CPU counter is at rest.
Samples ==
    { s \in [commandline : CommandLines, memory_usage : MemoryUsages,
             cpu_time : {0}, cgroup : Cgroups] :
        /\ is_empty(s.commandline) => s.memory_usage = 50
        /\ s.cgroup = Some(PortalId) =>
              ~is_empty(s.commandline) /\ s.memory_usage = 50 }

\* The samples of the study of the CPU accounting: one command line and one
\* memory usage, inside or outside the editor's cgroup, every CPU counter
CpuSamples ==
    [commandline : { <<"sh", NUL>> }, memory_usage : { 50 },
     cpu_time : 0..MaxCpuTime, cgroup : { None, Some(EditorId) }]

\* the ProcessData read for pid at time now
ProcessData(pid, sample, now) ==
    [pid |-> pid, commandline |-> sample.commandline,
     memory_usage |-> sample.memory_usage, cpu_time |-> sample.cpu_time,
     cpu_time_timestamp |-> now, cgroup |-> sample.cgroup]

\* A Process as Process::all builds it from one sample
FreshProcess(data) ==
    [data |-> data, cpu_time_before |-> data.cpu_time,
     cpu_time_before_timestamp |-> data.cpu_time_timestamp,
     alive |-> TRUE, icon |-> GenericIcon]

RECURSIVE SetToSeq(_)
SetToSeq(S) ==
    IF S = {} THEN <<>>
    ELSE LET m == CHOOSE x \in S : \A y \in S : x <= y
         IN <<m>> \o SetToSeq(S \ {m})

\* the ProcessData of one enumeration of the OS table os at time now, by pid
Enumerated(os, now) == [pid \in DOMAIN os |-> ProcessData(pid, os[pid], now)]

\* Process::all: the Vec<Process> of one enumeration, one fresh Process per
\* pid of the OS table (os maps each living pid to its sample), read at time now.
ProcessAll(os, now) ==
    LET order == SetToSeq(DOMAIN os)
    IN [i \in 1..Len(order) |->
          FreshProcess(ProcessData(order[i], os[order[i]], now))]

(***************************************************************************)
(* App                                                                     *)
(***************************************************************************)
Contains(list, x) == \E i \in 1..Len(list) : list[i] = x

\* add_process with the assignment of the icon turned around
add_process_takes_icon(app, process) ==
    [app EXCEPT !.processes = Append(@, process.data.pid), !.icon = process.icon]

\* App::add_process: the new membership list
add_process(app, process) ==
    [app EXCEPT !.processes = Append(@, process.data.pid)]

\* App::add_process: the icon the process takes
add_process_icon(app, process) ==
    [process EXCEPT !.icon = app.icon]

\* Process::cpu_time_ratio, a rational <<numerator, denominator>> in lowest
\* terms: the CPU time spent over the time passed, within [0, 1], and 0
\* when no time has passed
RECURSIVE Gcd(_, _)
Gcd(a, b) == IF b = 0 THEN a ELSE Gcd(b, a % b)

Rational(n, d) == LET g == Gcd(n, d) IN <<n \div g, d \div g>>

RatZero == <<0, 1>>

RatOne == <<1, 1>>

RatAdd(x, y) == Rational(x[1] * y[2] + y[1] * x[2], x[2] * y[2])

RatLeq(x, y) == x[1] * y[2] <= y[1] * x[2]

\* f32::clamp(0.0, 1.0)
RatClamp(x) == IF RatLeq(x, RatZero) THEN RatZero
               ELSE IF RatLeq(RatOne, x) THEN RatOne ELSE x

ProcessCpuTimeRatio(process) ==
    LET dc == process.data.cpu_time - process.cpu_time_before
        dt == process.data.cpu_time_timestamp - process.cpu_time_before_timestamp
    IN  IF dt <= 0 \/ dc <= 0 THEN RatZero ELSE RatClamp(Rational(dc, dt))

\* Process::sanitize_cmdline: the NUL separators become spaces
sanitize_cmdline(commandline) ==
    [i \in 1..Len(commandline) |->
        IF commandline[i] = NUL THEN " " ELSE commandline[i]]

\* AppsContext::all_processes: the living processes of the table
all_processes(ctx) ==
    { ctx.processes[pid] : pid \in { p \in DOMAIN ctx.processes : ctx.processes[p].alive } }

\* processes_iter without the filter on alive: every process of the table
\* whose pid is in the membership list
processes_iter_any(app, ctx) ==
    { ctx.processes[pid] :
        pid \in { p \in DOMAIN ctx.processes : Contains(app.processes, p) } }

\* processes_iter leaving out the processes without a command line
processes_iter_with_commandline(app, ctx) ==
    { process \in all_processes(ctx) :
        /\ Contains(app.processes, process.data.pid) /\ process.alive
        /\ ~is_empty(process.data.commandline) }

\* App::processes_iter: the living processes whose pid is in the membership list
processes_iter(app, ctx) ==
    { process \in all_processes(ctx) :
        Contains(app.processes, process.data.pid) /\ process.alive }

\* is_running looking at the membership list alone
is_running_nonempty(app, ctx) == Len(app.processes) > 0

\* App::is_running
is_running(app, ctx) == Cardinality(processes_iter(app, ctx)) > 0

RECURSIVE SumMemory(_)
SumMemory(procs) ==
    IF procs = {} THEN 0
    ELSE LET process == CHOOSE x \in procs : TRUE
         IN process.data.memory_usage + SumMemory(procs \ {process})

RECURSIVE SumRatio(_)
SumRatio(procs) ==
    IF procs = {} THEN RatZero
    ELSE LET process == CHOOSE x \in procs : TRUE
         IN RatAdd(ProcessCpuTimeRatio(process), SumRatio(procs \ {process}))

\* memory_usage as the average over the members instead of the sum
memory_usage_average(app, ctx) ==
    IF processes_iter(app, ctx) = {} THEN 0
    ELSE SumMemory(processes_iter(app, ctx)) \div Cardinality(processes_iter(app, ctx))

\* App::memory_usage
memory_usage(app, ctx) == SumMemory(processes_iter(app, ctx))

\* cpu_time_ratio without the clamp
cpu_time_ratio_unclamped(app, ctx) == SumRatio(processes_iter(app, ctx))

\* App::cpu_time_ratio
cpu_time_ratio(app, ctx) == RatClamp(SumRatio(processes_iter(app, ctx)))

RECURSIVE SumTimestamp(_)
SumTimestamp(procs) ==
    IF procs = {} THEN 0
    ELSE LET process == CHOOSE x \in procs : TRUE
         IN process.data.cpu_time_timestamp + SumTimestamp(procs \ {process})

RECURSIVE SumBeforeTimestamp(_)
SumBeforeTimestamp(procs) ==
    IF procs = {} THEN 0
    ELSE LET process == CHOOSE x \in procs : TRUE
         IN process.cpu_time_before_timestamp + SumBeforeTimestamp(procs \ {process})

\* u64::checked_div(..).unwrap_or(0)
checked_div_or_0(n, d) == IF d = 0 THEN 0 ELSE n \div d

\* App::cpu_time_timestamp: the sum over processes_iter divided by the length
\* of the membership list
cpu_time_timestamp(app, ctx) ==
    checked_div_or_0(SumTimestamp(processes_iter(app, ctx)), Len(app.processes))

\* App::cpu_time_before_timestamp
cpu_time_before_timestamp(app, ctx) ==
    checked_div_or_0(SumBeforeTimestamp(processes_iter(app, ctx)), Len(app.processes))

\* Result<()>
Ok == [ok |-> TRUE]

Err(e) == [ok |-> FALSE, err |-> e]

ProcessAction == { "TERM", "STOP", "KILL", "CONT" }

\* what the OS may answer to a signal
Deliveries == { Ok, Err("NotPermitted"), Err("NotFound") }

\* Process::execute_process_action: one signal to the process's pid, the
\* OS answering with delivery
process_execute_process_action(process, action, delivery) ==
    [pid |-> process.data.pid, action |-> action, result |-> delivery]

\* the signals of an execute_process_action that tries a failed delivery again
app_signals_retry(app, ctx, action, deliver) ==
    LET order == SetToSeq({ process.data.pid : process \in processes_iter(app, ctx) })
        first == [i \in 1..Len(order) |->
                    process_execute_process_action(ctx.processes[order[i]], action,
                                                   deliver[order[i]])]
        NotDelivered(signal) == ~signal.result.ok
    IN first \o SelectSeq(first, NotDelivered)

\* the signals App::execute_process_action has delivered, one per process
\* that processes_iter yields (in the order of the pids), deliver holding
\* the OS's answer for each pid
app_signals(app, ctx, action, deliver) ==
    LET order == SetToSeq({ process.data.pid : process \in processes_iter(app, ctx) })
    IN [i \in 1..Len(order) |->
          process_execute_process_action(ctx.processes[order[i]], action,
                                         deliver[order[i]])]

\* the results up to the first failure
RECURSIVE UntilFirstErr(_, _)
UntilFirstErr(results, i) ==
    IF i > Len(results) THEN results
    ELSE IF ~results[i].ok THEN SubSeq(results, 1, i)
    ELSE UntilFirstErr(results, i + 1)

\* execute_process_action giving up at the first failed delivery
execute_process_action_fail_fast(app, ctx, action, deliver) ==
    LET sent == app_signals(app, ctx, action, deliver)
    IN UntilFirstErr([i \in 1..Len(sent) |-> sent[i].result], 1)

\* App::execute_process_action: the collected results
execute_process_action(app, ctx, action, deliver) ==
    LET sent == app_signals(app, ctx, action, deliver)
    IN [i \in 1..Len(sent) |-> sent[i].result]

(***************************************************************************)
(* The toasts of MainWindow::process_action                                *)
(***************************************************************************)
\* the verb of an action in the messages that report a problem
Gerund(action) ==
    CASE action = "TERM" -> "ending"
      [] action = "STOP" -> "halting"
      [] action = "KILL" -> "killing"
      [] action = "CONT" -> "continuing"

\* the verb of an action in the messages that report a success
Participle(action) ==
    CASE action = "TERM" -> "ended"
      [] action = "STOP" -> "halted"
      [] action = "KILL" -> "killed"
      [] action = "CONT" -> "continued"

\* get_action_success
get_action_success(action, name) == <<"Successfully", Participle(action), name>>

\* get_app_action_failure always taking the singular form
get_app_action_failure_singular(action, args) ==
    <<"There was a problem", Gerund(action), "a process">>

\* get_app_action_failure: ni18n_f takes the singular for one process and
\* the plural with the number otherwise
get_app_action_failure(action, args) ==
    IF args = 1
    THEN <<"There was a problem", Gerund(action), "a process">>
    ELSE <<"There were problems", Gerund(action), ToString(args), "processes">>

\* get_process_action_failure
get_process_action_failure(action, name) ==
    <<"There was a problem", Gerund(action), name>>

\* res.iter().flatten().count(): the Ok results
RECURSIVE successful(_)
successful(results) ==
    IF results = <<>> THEN 0
    ELSE (IF Head(results).ok THEN 1 ELSE 0) + successful(Tail(results))

\* processes_unsuccessful = processes_tried - processes_successful
unsuccessful(results) == Len(results) - successful(results)

\* the toast_message of the ManipulateApp arm
app_toast_message(action, app, results) ==
    IF unsuccessful(results) > 0
    THEN get_app_action_failure(action, unsuccessful(results))
    ELSE get_action_success(action, app.display_name)

\* the toast_message of the ManipulateProcess arm
process_toast_message(action, display_name, result) ==
    IF result.ok
    THEN get_action_success(action, display_name)
    ELSE get_process_action_failure(action, display_name)

(***************************************************************************)
(* AppsContext                                                             *)
(***************************************************************************)
Insert(map, key, value) ==
    [k \in DOMAIN map \cup {key} |-> IF k = key THEN value ELSE map[k]]

\* AppsContext::default()
DefaultContext ==
    [apps |-> <<>>, processes |-> <<>>, processes_assigned_to_apps |-> {}]

\* the body of the loop of AppsContext::new, for one process of the list
NewStep(ctx, process) ==
    LET pid == process.data.pid
        key == unwrap_or_default(process.data.cgroup)
    IN  IF key \in DOMAIN ctx.apps
        THEN [apps |-> [ctx.apps EXCEPT ![key] = add_process(@, process)],
              processes |->
                  Insert(ctx.processes, pid, add_process_icon(ctx.apps[key], process)),
              processes_assigned_to_apps |->
                  ctx.processes_assigned_to_apps \cup {pid}]
        ELSE [ctx EXCEPT !.processes = Insert(ctx.processes, pid, process)]

\* the loop of AppsContext::new over processes_list, from element i on
RECURSIVE NewLoop(_, _, _)
NewLoop(ctx, processes_list, i) ==
    IF i > Len(processes_list) THEN ctx
    ELSE NewLoop(NewStep(ctx, processes_list[i]), processes_list, i + 1)

\* new() without the record of the pids it has assigned
NewContext_unindexed(processes_list) ==
    [NewLoop([apps |-> [id \in { a.id : a \in AllApps } |->
                           CHOOSE a \in AllApps : a.id = id],
              processes |-> <<>>,
              processes_assigned_to_apps |-> {}],
             processes_list, 1)
       EXCEPT !.processes_assigned_to_apps = {}]

\* AppsContext::new
NewContext(processes_list) ==
    NewLoop([apps |-> [id \in { a.id : a \in AllApps } |->
                          CHOOSE a \in AllApps : a.id = id],
             processes |-> <<>>,
             processes_assigned_to_apps |-> {}],
            processes_list, 1)

\* the loop body evaluating the app assignment for a known pid again
RefreshStep_reassign(ctx, refreshed_process) ==
    LET pid == refreshed_process.data.pid
        key == unwrap_or_default(refreshed_process.data.cgroup)
        seen == [ctx EXCEPT !.updated_processes = @ \cup {pid}]
        updated ==
            IF pid \in DOMAIN ctx.processes
            THEN [seen EXCEPT !.processes[pid] =
                    [ctx.processes[pid] EXCEPT
                        !.cpu_time_before = ctx.processes[pid].data.cpu_time,
                        !.cpu_time_before_timestamp =
                            ctx.processes[pid].data.cpu_time_timestamp,
                        !.data = refreshed_process.data]]
            ELSE [seen EXCEPT !.processes = Insert(@, pid, refreshed_process)]
    IN  IF key \in DOMAIN ctx.apps
        THEN [updated EXCEPT
                 !.processes_assigned_to_apps = @ \cup {pid},
                 !.apps[key] = add_process(@, refreshed_process),
                 !.processes[pid] = add_process_icon(ctx.apps[key], @)]
        ELSE updated

\* the loop body replacing a known Process by the one just read
RefreshStep_replace(ctx, refreshed_process) ==
    LET pid == refreshed_process.data.pid
        seen == [ctx EXCEPT !.updated_processes = @ \cup {pid}]
    IN  IF pid \in DOMAIN ctx.processes
        THEN [seen EXCEPT !.processes[pid] = refreshed_process]
        ELSE LET inserted == NewStep(ctx, refreshed_process)
             IN [apps |-> inserted.apps, processes |-> inserted.processes,
                 processes_assigned_to_apps |-> inserted.processes_assigned_to_apps,
                 updated_processes |-> seen.updated_processes]

\* the loop body replacing data without moving the last sample to the history
RefreshStep_noshift(ctx, refreshed_process) ==
    LET pid == refreshed_process.data.pid
        seen == [ctx EXCEPT !.updated_processes = @ \cup {pid}]
    IN  IF pid \in DOMAIN ctx.processes
        THEN [seen EXCEPT !.processes[pid].data = refreshed_process.data]
        ELSE LET inserted == NewStep(ctx, refreshed_process)
             IN [apps |-> inserted.apps, processes |-> inserted.processes,
                 processes_assigned_to_apps |-> inserted.processes_assigned_to_apps,
                 updated_processes |-> seen.updated_processes]

\* the loop body writing the fresh sample to the history and keeping data
RefreshStep_swapped(ctx, refreshed_process) ==
    LET pid == refreshed_process.data.pid
        seen == [ctx EXCEPT !.updated_processes = @ \cup {pid}]
    IN  IF pid \in DOMAIN ctx.processes
        THEN [seen EXCEPT !.processes[pid] =
                [ctx.processes[pid] EXCEPT
                    !.cpu_time_before = refreshed_process.data.cpu_time,
                    !.cpu_time_before_timestamp =
                        refreshed_process.data.cpu_time_timestamp]]
        ELSE LET inserted == NewStep(ctx, refreshed_process)
             IN [apps |-> inserted.apps, processes |-> inserted.processes,
                 processes_assigned_to_apps |-> inserted.processes_assigned_to_apps,
                 updated_processes |-> seen.updated_processes]

\* the loop body inserting a new process only when an App has taken it
RefreshStep_insert_matched(ctx, refreshed_process) ==
    LET pid == refreshed_process.data.pid
        key == unwrap_or_default(refreshed_process.data.cgroup)
        seen == [ctx EXCEPT !.updated_processes = @ \cup {pid}]
    IN  IF pid \in DOMAIN ctx.processes
        THEN LET old_process == ctx.processes[pid]
             IN [seen EXCEPT !.processes[pid] =
                    [old_process EXCEPT
                        !.cpu_time_before = old_process.data.cpu_time,
                        !.cpu_time_before_timestamp =
                            old_process.data.cpu_time_timestamp,
                        !.data = refreshed_process.data]]
        ELSE IF pid \in ctx.processes_assigned_to_apps
        THEN seen
        ELSE IF key \in DOMAIN ctx.apps
        THEN [seen EXCEPT
                 !.processes_assigned_to_apps = @ \cup {pid},
                 !.apps[key] = add_process(@, refreshed_process),
                 !.processes = Insert(@, pid,
                     add_process_icon(ctx.apps[key], refreshed_process))]
        ELSE seen

\* a first loop that adds a new process to its App without recording the pid
RefreshStep_unrecorded(ctx, refreshed_process) ==
    LET pid == refreshed_process.data.pid
        key == unwrap_or_default(refreshed_process.data.cgroup)
        seen == [ctx EXCEPT !.updated_processes = @ \cup {pid}]
    IN  IF pid \in DOMAIN ctx.processes
        THEN LET old_process == ctx.processes[pid]
             IN [seen EXCEPT !.processes[pid] =
                    [old_process EXCEPT
                        !.cpu_time_before = old_process.data.cpu_time,
                        !.cpu_time_before_timestamp =
                            old_process.data.cpu_time_timestamp,
                        !.data = refreshed_process.data]]
        ELSE IF pid \in ctx.processes_assigned_to_apps
        THEN seen
        ELSE IF key \in DOMAIN ctx.apps
        THEN [seen EXCEPT
                 !.apps[key] = add_process(@, refreshed_process),
                 !.processes = Insert(@, pid,
                     add_process_icon(ctx.apps[key], refreshed_process))]
        ELSE [seen EXCEPT !.processes = Insert(@, pid, refreshed_process)]

\* a first loop that leaves a new process of an App out of the table
RefreshStep_assigned_only(ctx, refreshed_process) ==
    LET pid == refreshed_process.data.pid
        key == unwrap_or_default(refreshed_process.data.cgroup)
        seen == [ctx EXCEPT !.updated_processes = @ \cup {pid}]
    IN  IF pid \in DOMAIN ctx.processes
        THEN LET old_process == ctx.processes[pid]
             IN [seen EXCEPT !.processes[pid] =
                    [old_process EXCEPT
                        !.cpu_time_before = old_process.data.cpu_time,
                        !.cpu_time_before_timestamp =
                            old_process.data.cpu_time_timestamp,
                        !.data = refreshed_process.data]]
        ELSE IF pid \in ctx.processes_assigned_to_apps
        THEN seen
        ELSE IF key \in DOMAIN ctx.apps
        THEN [seen EXCEPT
                 !.processes_assigned_to_apps = @ \cup {pid},
                 !.apps[key] = add_process(@, refreshed_process)]
        ELSE [seen EXCEPT !.processes = Insert(@, pid, refreshed_process)]

\* a first loop whose update in place marks the process alive again
RefreshStep_revive(ctx, refreshed_process) ==
    LET pid == refreshed_process.data.pid
        key == unwrap_or_default(refreshed_process.data.cgroup)
        seen == [ctx EXCEPT !.updated_processes = @ \cup {pid}]
    IN  IF pid \in DOMAIN ctx.processes
        THEN LET old_process == ctx.processes[pid]
             IN [seen EXCEPT !.processes[pid] =
                    [old_process EXCEPT
                        !.cpu_time_before = old_process.data.cpu_time,
                        !.cpu_time_before_timestamp =
                            old_process.data.cpu_time_timestamp,
                        !.data = refreshed_process.data,
                        !.alive = TRUE]]
        ELSE IF pid \in ctx.processes_assigned_to_apps
        THEN seen
        ELSE IF key \in DOMAIN ctx.apps
        THEN [seen EXCEPT
                 !.processes_assigned_to_apps = @ \cup {pid},
                 !.apps[key] = add_process(@, refreshed_process),
                 !.processes = Insert(@, pid,
                     add_process_icon(ctx.apps[key], refreshed_process))]
        ELSE [seen EXCEPT !.processes = Insert(@, pid, refreshed_process)]

\* the body of the first loop of AppsContext::refresh, for one process of the
\* list; ctx also carries the local updated_processes
RefreshStep(ctx, refreshed_process) ==
    LET pid == refreshed_process.data.pid
        key == unwrap_or_default(refreshed_process.data.cgroup)
        seen == [ctx EXCEPT !.updated_processes = @ \cup {pid}]
    IN  IF pid \in DOMAIN ctx.processes
        THEN LET old_process == ctx.processes[pid]
             IN [seen EXCEPT !.processes[pid] =
                    [old_process EXCEPT
                        !.cpu_time_before = old_process.data.cpu_time,
                        !.cpu_time_before_timestamp =
                            old_process.data.cpu_time_timestamp,
                        !.data = refreshed_process.data]]
        ELSE IF pid \in ctx.processes_assigned_to_apps
        THEN seen
        ELSE IF key \in DOMAIN ctx.apps
        THEN [seen EXCEPT
                 !.processes_assigned_to_apps = @ \cup {pid},
                 !.apps[key] = add_process(@, refreshed_process),
                 !.processes = Insert(@, pid,
                     add_process_icon(ctx.apps[key], refreshed_process))]
        ELSE [seen EXCEPT !.processes = Insert(@, pid, refreshed_process)]

\* the first loop of AppsContext::refresh, from element i on
RECURSIVE RefreshLoop(_, _, _)
RefreshLoop(ctx, newly_gathered_processes, i) ==
    IF i > Len(newly_gathered_processes) THEN ctx
    ELSE RefreshLoop(RefreshStep(ctx, newly_gathered_processes[i]),
                     newly_gathered_processes, i + 1)

\* the second loop erasing the processes that have died
MarkDead_remove(procs, updated) ==
    [p \in DOMAIN procs \cap updated |-> procs[p]]

\* the second loop of AppsContext::refresh: the processes not updated have died
MarkDead(procs, updated) ==
    [p \in DOMAIN procs |->
        IF p \notin updated THEN [procs[p] EXCEPT !.alive = FALSE] ELSE procs[p]]

\* AppsContext::refresh on a successful enumeration
RefreshContext(ctx, newly_gathered_processes) ==
    LET looped == RefreshLoop(
                    [apps |-> ctx.apps, processes |-> ctx.processes,
                     processes_assigned_to_apps |-> ctx.processes_assigned_to_apps,
                     updated_processes |-> {}],
                    newly_gathered_processes, 1)
    IN [looped EXCEPT !.processes = MarkDead(@, looped.updated_processes)]

\* Result<T> holding a value
OkOf(v) == [ok |-> TRUE, val |-> v]

\* what Process::all() fails with when the OS process table cannot be read
EnumerationErrors == { Err("unable to read /proc") }

\* refresh() taking a failed enumeration for an empty one
refresh_failure_as_empty(ctx, all) ==
    LET refreshed == RefreshContext(ctx, IF all.ok THEN all.val ELSE <<>>)
    IN [apps |-> refreshed.apps, processes |-> refreshed.processes,
        processes_assigned_to_apps |-> refreshed.processes_assigned_to_apps]

\* AppsContext::refresh, all being what Process::all().await has given: on
\* Err the `?` returns before anything is touched
refresh(ctx, all) ==
    IF all.ok
    THEN LET refreshed == RefreshContext(ctx, all.val)
         IN [apps |-> refreshed.apps, processes |-> refreshed.processes,
             processes_assigned_to_apps |-> refreshed.processes_assigned_to_apps]
    ELSE ctx

\* the Result<()> that AppsContext::refresh returns
refresh_result(all) == IF all.ok THEN Ok ELSE all

\* the AppsContext of the current state
Context ==
    [apps |-> apps, processes |-> processes,
     processes_assigned_to_apps |-> processes_assigned_to_apps]

\* AppsContext::get_process
get_process(ctx, pid) ==
    IF pid \in DOMAIN ctx.processes THEN Some(ctx.processes[pid]) ELSE None

\* AppsContext::get_app
get_app(ctx, id) == IF id \in DOMAIN ctx.apps THEN Some(ctx.apps[id]) ELSE None

\* AppsContext::process_item
process_item(ctx, pid) ==
    IF get_process(ctx, pid).some
    THEN LET process == get_process(ctx, pid).val
         IN Some([pid |-> process.data.pid,
                  icon |-> process.icon,
                  memory_usage |-> process.data.memory_usage,
                  cpu_time_ratio |-> ProcessCpuTimeRatio(process),
                  commandline |-> sanitize_cmdline(process.data.commandline),
                  cgroup |-> process.data.cgroup])
    ELSE None

\* process_items without the filter on the command line
process_items_alive(ctx) ==
    [pid \in { process.data.pid : process \in all_processes(ctx) }
       |-> process_item(ctx, pid).val]

\* AppsContext::process_items
process_items(ctx) ==
    [pid \in { process.data.pid :
                 process \in { q \in all_processes(ctx) : ~is_empty(q.data.commandline) } }
       |-> process_item(ctx, pid).val]

\* app_items leaving the members of every App, hidden or shown, out of the
\* System Processes entry
app_items_system_unassigned(ctx) ==
    LET shown == { id \in DOMAIN ctx.apps :
                     /\ is_running(ctx.apps[id], ctx)
                     /\ ~starts_with(ctx.apps[id].id, PortalPrefix) }
        app_pids == UNION { { process.data.pid :
                                process \in processes_iter(ctx.apps[id], ctx) } :
                            id \in DOMAIN ctx.apps }
        system == { process \in all_processes(ctx) :
                      process.data.pid \notin app_pids /\ process.alive }
        app_item(app) ==
            [id |-> Some(app.id),
             display_name |-> app.display_name,
             icon |-> app.icon,
             description |-> app.description,
             memory_usage |-> memory_usage(app, ctx),
             cpu_time_ratio |-> cpu_time_ratio(app, ctx),
             processes_amount |-> Cardinality(processes_iter(app, ctx))]
        system_item ==
            [id |-> None,
             display_name |-> "System Processes",
             icon |-> "system-processes",
             description |-> None,
             memory_usage |-> SumMemory(system),
             cpu_time_ratio |-> SumRatio(system),
             processes_amount |-> Cardinality(DOMAIN ctx.processes)]
    IN [key \in { Some(ctx.apps[id].id) : id \in shown } \cup {None} |->
          IF key = None THEN system_item ELSE app_item(ctx.apps[key.val])]

\* app_items summing the System Processes entry over every living process
app_items_system_all(ctx) ==
    LET shown == { id \in DOMAIN ctx.apps :
                     /\ is_running(ctx.apps[id], ctx)
                     /\ ~starts_with(ctx.apps[id].id, PortalPrefix) }
        system == all_processes(ctx)
        app_item(app) ==
            [id |-> Some(app.id),
             display_name |-> app.display_name,
             icon |-> app.icon,
             description |-> app.description,
             memory_usage |-> memory_usage(app, ctx),
             cpu_time_ratio |-> cpu_time_ratio(app, ctx),
             processes_amount |-> Cardinality(processes_iter(app, ctx))]
        system_item ==
            [id |-> None,
             display_name |-> "System Processes",
             icon |-> "system-processes",
             description |-> None,
             memory_usage |-> SumMemory(system),
             cpu_time_ratio |-> SumRatio(system),
             processes_amount |-> Cardinality(DOMAIN ctx.processes)]
    IN [key \in { Some(ctx.apps[id].id) : id \in shown } \cup {None} |->
          IF key = None THEN system_item ELSE app_item(ctx.apps[key.val])]

\* AppsContext::app_items
app_items(ctx) ==
    LET shown == { id \in DOMAIN ctx.apps :
                     /\ is_running(ctx.apps[id], ctx)
                     /\ ~starts_with(ctx.apps[id].id, PortalPrefix) }
        app_pids == UNION { { process.data.pid :
                                process \in processes_iter(ctx.apps[id], ctx) } :
                            id \in shown }
        system == { process \in all_processes(ctx) :
                      process.data.pid \notin app_pids /\ process.alive }
        system_cpu_ratio == SumRatio(system)
        system_memory_usage == SumMemory(system)
        app_item(app) ==
            [id |-> Some(app.id),
             display_name |-> app.display_name,
             icon |-> app.icon,
             description |-> app.description,
             memory_usage |-> memory_usage(app, ctx),
             cpu_time_ratio |-> cpu_time_ratio(app, ctx),
             processes_amount |-> Cardinality(processes_iter(app, ctx))]
        system_item ==
            [id |-> None,
             display_name |-> "System Processes",
             icon |-> "system-processes",
             description |-> None,
             memory_usage |-> system_memory_usage,
             cpu_time_ratio |-> system_cpu_ratio,
             processes_amount |-> Cardinality(DOMAIN ctx.processes)]
    IN [key \in { Some(ctx.apps[id].id) : id \in shown } \cup {None} |->
          IF key = None THEN system_item ELSE app_item(ctx.apps[key.val])]

(***************************************************************************)
(* The processes page: ResProcesses                                        *)
(***************************************************************************)

\* ResApplications::refresh_apps_list: the applications page shows the
\* snapshot app_items of the context it is given
refresh_apps_list(ctx) == app_items(ctx)

\* ProcessEntry::new: the row of the list store for a ProcessItem
ProcessEntry(item) ==
    [pid |-> item.pid, cpu_usage |-> item.cpu_time_ratio,
     memory_usage |-> item.memory_usage]

\* the detail dialog the information button shows for a row, as open_dialog
\* keeps it: (pid, dialog)
ResProcessDialog(object) ==
    [pid |-> object.pid, closed |-> FALSE,
     cpu_usage |-> object.cpu_usage, memory_usage |-> object.memory_usage]

\* the closure refresh_processes_list runs on the rows of the store, from the
\* i-th row on. st holds the rows, open_dialog, the local dialog_opt (the pid
\* of the dialog while it refers to the content of open_dialog, None once it
\* is rebound to &None), new_items and pids_to_remove
RECURSIVE for_each_object(_, _, _)
for_each_object(ctx, st, i) ==
    IF i > Len(st.store)
    THEN st
    ELSE
      LET item_pid == st.store[i].pid
          refers(s) == s.dialog_opt.some /\ s.dialog_opt.val = item_pid
          s1 == IF ~get_process(ctx, item_pid).val.alive
                THEN [st EXCEPT
                        !.open_dialog = IF refers(st)
                                        THEN Some([@.val EXCEPT !.closed = TRUE])
                                        ELSE @,
                        !.dialog_opt = IF refers(st) THEN None ELSE @,
                        !.pids_to_remove = @ \cup { item_pid }]
                ELSE st
          s2 == IF item_pid \in DOMAIN s1.new_items
                THEN LET new_item == s1.new_items[item_pid]
                     IN [s1 EXCEPT
                           !.new_items = [pid \in DOMAIN s1.new_items \ { item_pid }
                                            |-> s1.new_items[pid]],
                           !.open_dialog =
                               IF refers(s1)
                               THEN Some([@.val EXCEPT
                                            !.cpu_usage = new_item.cpu_time_ratio,
                                            !.memory_usage = new_item.memory_usage])
                               ELSE @,
                           !.store[i] = [@ EXCEPT
                                           !.cpu_usage = new_item.cpu_time_ratio,
                                           !.memory_usage = new_item.memory_usage]]
                ELSE s1
      IN for_each_object(ctx, s2, i + 1)

\* a list update that appends a row for every item of process_items
refresh_processes_list_append_all(this, ctx) ==
    LET st == for_each_object(ctx,
                  [store |-> this.store,
                   open_dialog |-> this.open_dialog,
                   dialog_opt |-> IF this.open_dialog.some
                                  THEN Some(this.open_dialog.val.pid) ELSE None,
                   new_items |-> process_items(ctx),
                   pids_to_remove |-> {}], 1)
        retained == SelectSeq(st.store, LAMBDA object : object.pid \notin st.pids_to_remove)
        drained == SetToSeq(DOMAIN process_items(ctx))
    IN [store |-> retained \o [k \in 1..Len(drained)
                                 |-> ProcessEntry(process_items(ctx)[drained[k]])],
        open_dialog |-> st.open_dialog]

\* ResProcesses::refresh_processes_list on this = (store, open_dialog): the
\* rows are updated, those of dead processes are removed and the remaining
\* new_items are appended; open_dialog itself is never assigned
refresh_processes_list(this, ctx) ==
    LET st == for_each_object(ctx,
                  [store |-> this.store,
                   open_dialog |-> this.open_dialog,
                   dialog_opt |-> IF this.open_dialog.some
                                  THEN Some(this.open_dialog.val.pid) ELSE None,
                   new_items |-> process_items(ctx),
                   pids_to_remove |-> {}], 1)
        retained == SelectSeq(st.store, LAMBDA object : object.pid \notin st.pids_to_remove)
        drained == SetToSeq(DOMAIN st.new_items)
    IN [store |-> retained \o [k \in 1..Len(drained)
                                 |-> ProcessEntry(st.new_items[drained[k]])],
        open_dialog |-> st.open_dialog]


(***************************************************************************)
(* The memory devices: utils/memory.rs                                     *)
(***************************************************************************)
\* The output of dmidecode is a sequence of pieces of text: the line feed,
\* and lines "Speed: <digits> MT/s", "Speed: Unknown" and "Type: DDR4".
LF == [kind |-> "\\n", digits |-> <<>>]

SpeedLine(digits) == [kind |-> "Speed: (\\d+) MT/s", digits |-> digits]

SpeedUnknown == [kind |-> "Speed: Unknown", digits |-> <<>>]

TypeLine == [kind |-> "Type: DDR4", digits |-> <<>>]

\* u32::MAX in decimal digits
U32Max == <<4, 2, 9, 4, 9, 6, 7, 2, 9, 5>>

\* the digits a Speed line may carry: 3200, 08, u32::MAX and u32::MAX + 1
DigitStrings == { <<3, 2, 0, 0>>, <<0, 8>>, U32Max, <<4, 2, 9, 4, 9, 6, 7, 2, 9, 6>> }

Pieces == { LF, SpeedUnknown, TypeLine } \cup { SpeedLine(d) : d \in DigitStrings }

\* the outputs of dmidecode of up to MaxTokens pieces
DmiOutputs == UNION { [1..n -> Pieces] : n \in 0..MaxTokens }

\* the digits without their leading zeros
RECURSIVE strip_zeros(_)
strip_zeros(digits) ==
    IF Len(digits) > 1 /\ digits[1] = 0 THEN strip_zeros(Tail(digits)) ELSE digits

\* x <= y for digit strings of the same length
RECURSIVE digits_leq(_, _)
digits_leq(x, y) ==
    IF x = <<>> THEN TRUE
    ELSE IF x[1] # y[1] THEN x[1] < y[1]
    ELSE digits_leq(Tail(x), Tail(y))

\* str::parse::<u32> on a string of decimal digits: the number, written
\* without leading zeros, or an error when it is above u32::MAX
parse_u32(digits) ==
    LET number == strip_zeros(digits)
    IN  IF \/ Len(number) < Len(U32Max)
           \/ Len(number) = Len(U32Max) /\ digits_leq(number, U32Max)
        THEN OkOf(number)
        ELSE Err("PosOverflow")

\* str::split("\n\n"): the pieces between the occurrences of two line feeds,
\* found from the left
RECURSIVE split(_)
split(text) ==
    LET found == { i \in 1..(Len(text) - 1) : text[i] = LF /\ text[i + 1] = LF }
    IN  IF found = {} THEN << text >>
        ELSE LET i == CHOOSE x \in found : \A y \in found : x <= y
             IN << SubSeq(text, 1, i - 1) >> \o split(SubSeq(text, i + 2, Len(text)))

\* Regex::captures for RE_SPEED: the digits of the first "Speed: <digits> MT/s"
re_speed_captures(device_string) ==
    LET found == { i \in 1..Len(device_string) :
                     device_string[i].kind = SpeedLine(<<>>).kind }
    IN  IF found = {} THEN None
        ELSE Some(device_string[CHOOSE x \in found : \A y \in found : x <= y].digits)

\* the text from the i-th piece to the end of its line
RECURSIVE rest_of_line(_, _)
rest_of_line(device_string, i) ==
    IF i > Len(device_string) \/ device_string[i] = LF THEN <<>>
    ELSE << device_string[i] >> \o rest_of_line(device_string, i + 1)

\* Regex::captures for RE_TYPE, "Type: (.+)": the rest of the line of the
\* first "Type: ", or "N/A"
re_type_capture(device_string) ==
    LET found == { i \in 1..Len(device_string) : device_string[i] = TypeLine }
    IN  IF found = {} THEN << "N/A" >>
        ELSE << "DDR4" >> \o
             rest_of_line(device_string,
                          (CHOOSE x \in found : \A y \in found : x <= y) + 1)

\* the panic of Result::unwrap on an Err
Panic == [ok |-> FALSE, err |-> "panicked"]

\* the MemoryDevice parse_dmidecode builds of one device_string, or the panic
\* of x[1].parse().unwrap(); no piece of the outputs holds "Form Factor: "
\* or "Type Detail: "
MemoryDevice(device_string) ==
    LET captures == re_speed_captures(device_string)
    IN  IF captures.some /\ ~parse_u32(captures.val).ok
        THEN Panic
        ELSE OkOf([speed |-> IF captures.some
                             THEN Some(parse_u32(captures.val).val) ELSE None,
                   form_factor |-> << "N/A" >>,
                   type |-> re_type_capture(device_string),
                   type_detail |-> << "N/A" >>,
                   installed |-> captures.some])

\* the loop of parse_dmidecode over device_strings from the i-th
RECURSIVE parse_loop(_, _, _)
parse_loop(device_strings, i, found) ==
    IF i > Len(device_strings) THEN OkOf(found)
    ELSE IF device_strings[i] = <<>> THEN parse_loop(device_strings, i + 1, found)
    ELSE LET memory_device == MemoryDevice(device_strings[i])
         IN  IF ~memory_device.ok THEN Panic
             ELSE parse_loop(device_strings, i + 1, Append(found, memory_device.val))

\* parse_dmidecode: the Vec<MemoryDevice>, or the panic
parse_dmidecode(text) == parse_loop(split(text), 1, <<>>)

(***************************************************************************)
(* Operations                                                              *)
(***************************************************************************)
Init ==
    /\ pc = "setup"
    /\ apps = DefaultContext.apps
    /\ processes = DefaultContext.processes
    /\ processes_assigned_to_apps = DefaultContext.processes_assigned_to_apps
    /\ enumerated = <<>>
    /\ repeated = FALSE
    /\ clock = 0
    /\ handling = None
    /\ res = <<>>
    /\ signals = <<>>
    /\ borrow = "unused"
    /\ gathered = None
    /\ returned = None
    /\ processes_unsuccessful = 0
    /\ toast_message = None
    /\ apps_store = <<>>
    /\ store = <<>>
    /\ open_dialog = None
    /\ confirmation = None
    /\ channel = <<>>
    /\ response = None
    /\ requested = None
    /\ dmi = <<>>
    /\ devices = None

\* MainWindow::init_async: *apps_context = AppsContext::new().await.unwrap(),
\* Process::all reading the OS table os
NewFrom(os, now) ==
    /\ pc = "setup"
    /\ \E ctx \in { NewContext(ProcessAll(os, now)) } :
          /\ apps' = ctx.apps
          /\ processes' = ctx.processes
          /\ processes_assigned_to_apps' = ctx.processes_assigned_to_apps
    /\ enumerated' = Enumerated(os, now)
    /\ repeated' = FALSE
    /\ clock' = now
    /\ pc' = "loop"
    /\ UNCHANGED <<handling, res, signals, borrow, gathered, returned>>
    /\ UNCHANGED <<handler_vars, page_vars, memory_vars>>

\* the refresh loop: apps_context.borrow_mut().refresh().await,
\* Process::all reading the OS table os
RefreshFrom(os, now) ==
    /\ pc = "loop"
    /\ \E ctx \in { RefreshContext(Context, ProcessAll(os, now)) } :
          /\ apps' = ctx.apps
          /\ processes' = ctx.processes
          /\ processes_assigned_to_apps' = ctx.processes_assigned_to_apps
    /\ enumerated' = Enumerated(os, now)
    /\ clock' = now
    /\ pc' = pc
    /\ UNCHANGED <<handling, res, signals, borrow, gathered, returned>>
    /\ UNCHANGED <<handler_vars, page_vars, memory_vars>>

\* the OS tables an enumeration may read
OsTables == UNION { [S -> Samples] : S \in SUBSET Pids }

New == \E os \in OsTables : NewFrom(os, clock)

Refresh ==
    /\ \E os \in OsTables : RefreshFrom(os, clock)
    /\ UNCHANGED repeated

\* MainWindow::process_action, Action::ManipulateApp(action, id, _), up to
\* the computation of res
ManipulateApp ==
    /\ pc = "loop"
    /\ \E id \in DOMAIN apps, action \in ProcessAction :
         \E deliver \in [{ process.data.pid :
                              process \in processes_iter(apps[id], Context) }
                            -> Deliveries] :
            /\ handling' = Some([kind |-> "ManipulateApp", action |-> action, id |-> id])
            /\ \E done \in { execute_process_action(apps[id], Context, action, deliver) } :
                  /\ res' = done
                  /\ processes_unsuccessful' = unsuccessful(done)
                  /\ toast_message' = Some(app_toast_message(action, apps[id], done))
            /\ signals' = app_signals(apps[id], Context, action, deliver)
    /\ pc' = "handler"
    /\ UNCHANGED <<apps, processes, processes_assigned_to_apps,
                   enumerated, repeated, clock, borrow, gathered, returned>>
    /\ UNCHANGED <<page_vars, memory_vars>>

\* the display names a ManipulateProcess message may carry
DisplayNames == { "sh" }

\* MainWindow::process_action, Action::ManipulateProcess(action, pid,
\* display_name, _): the process is looked up by its pid and signalled, alive
\* or not; a pid that is no key of the table is passed over
ManipulateProcessOf(action, pid, display_name) ==
    /\ pc = "loop"
    /\ \E delivery \in Deliveries :
            /\ handling' = Some([kind |-> "ManipulateProcess", action |-> action,
                                 pid |-> pid])
            /\ IF get_process(Context, pid).some
               THEN /\ signals' = << process_execute_process_action(
                                        get_process(Context, pid).val, action, delivery) >>
                    /\ toast_message' =
                           Some(process_toast_message(action, display_name, delivery))
               ELSE /\ signals' = <<>>
                    /\ toast_message' = None
    /\ pc' = "handler"
    /\ UNCHANGED <<apps, processes, processes_assigned_to_apps, enumerated,
                   repeated, clock, borrow, gathered, returned, res,
                   processes_unsuccessful>>

ManipulateProcess ==
    /\ \E pid \in Pids, action \in ProcessAction, display_name \in DisplayNames :
          ManipulateProcessOf(action, pid, display_name)
    /\ UNCHANGED <<page_vars, memory_vars>>

\* MainWindow::process_action returns glib::ControlFlow::Continue, res is dropped
HandlerReturn ==
    /\ pc = "handler"
    /\ pc' = "loop"
    /\ handling' = None
    /\ res' = <<>>
    /\ signals' = <<>>
    /\ processes_unsuccessful' = 0
    /\ toast_message' = None
    /\ UNCHANGED <<apps, processes, processes_assigned_to_apps,
                   enumerated, repeated, clock, borrow, gathered, returned>>
    /\ UNCHANGED <<page_vars, memory_vars>>

\* the refresh loop calls apps_context.borrow_mut().refresh(): the RefMut
\* lives until the end of the statement, so the RefCell stays mutably borrowed
\* while refresh() is suspended in Process::all().await
RefreshCall ==
    /\ pc = "loop"
    /\ borrow = "unused"
    /\ borrow' = "writing"
    /\ pc' = "refresh"
    /\ UNCHANGED <<apps, processes, processes_assigned_to_apps, enumerated,
                   repeated, clock, handling, res, signals, gathered, returned>>
    /\ UNCHANGED <<handler_vars, page_vars, memory_vars>>

\* Process::all() has given all and refresh() runs to its end; the loop drops
\* the result and the RefMut, refresh_apps_list and refresh_processes_list
\* read through borrow(), and the loop waits in timeout_future
RefreshResume(all) ==
    /\ pc = "refresh"
    /\ borrow = "writing"
    /\ \E ctx \in { refresh(Context, all) } :
          /\ apps' = ctx.apps
          /\ processes' = ctx.processes
          /\ processes_assigned_to_apps' = ctx.processes_assigned_to_apps
          /\ apps_store' = refresh_apps_list(ctx)
          /\ \E page \in { refresh_processes_list(
                                [store |-> store, open_dialog |-> open_dialog], ctx) } :
                /\ store' = page.store
                /\ open_dialog' = page.open_dialog
    /\ gathered' = Some(IF all.ok THEN Ok ELSE all)
    /\ returned' = Some(refresh_result(all))
    /\ borrow' = "unused"
    /\ pc' = "loop"
    /\ UNCHANGED <<repeated, clock, handling, res, signals>>
    /\ UNCHANGED <<handler_vars, confirmation, channel, response, requested,
                   memory_vars>>

\* the enumeration of the suspended refresh() succeeds
RefreshReturns ==
    \E os \in OsTables :
        /\ RefreshResume(OkOf(ProcessAll(os, clock)))
        /\ enumerated' = Enumerated(os, clock)

\* the loop unwrapping the result of refresh(): a failed enumeration panics
RefreshFails_unwrap ==
    /\ pc = "refresh"
    /\ borrow = "writing"
    /\ \E e \in EnumerationErrors :
          /\ gathered' = Some(e)
          /\ returned' = Some(refresh_result(e))
    /\ pc' = "panicked"
    /\ UNCHANGED <<apps, processes, processes_assigned_to_apps, enumerated,
                   repeated, clock, handling, res, signals, borrow>>
    /\ UNCHANGED <<handler_vars, page_vars, memory_vars>>

\* the enumeration of the suspended refresh() fails
RefreshFails ==
    \E e \in EnumerationErrors :
        /\ RefreshResume(e)
        /\ UNCHANGED enumerated

\* the messages of the action channel
Actions ==
    [kind : { "ManipulateApp" }, action : ProcessAction,
     id : { a.id : a \in AllApps }]
    \cup [kind : { "ManipulateProcess" }, action : ProcessAction, pid : Pids]

\* the main context dispatches a message of the action channel while the
\* refresh loop is suspended: MainWindow::process_action calls
\* apps_context.borrow() in either arm, which panics on a RefCell that is
\* mutably borrowed
DispatchDuringRefresh ==
    /\ pc = "refresh"
    /\ borrow = "writing"
    /\ \E action \in Actions : handling' = Some(action)
    /\ pc' = "panicked"
    /\ UNCHANGED <<apps, processes, processes_assigned_to_apps, enumerated,
                   repeated, clock, res, signals, borrow, gathered, returned>>
    /\ UNCHANGED <<handler_vars, page_vars, memory_vars>>

Next == New \/ Refresh

Spec == Init /\ [][Next]_vars

\* the time of the next enumeration: the clock does not run backwards
NextClocks == { now \in { clock, clock + 1 } : now <= MaxClock }

CpuOsTables == UNION { [S -> CpuSamples] : S \in SUBSET Pids }

NewSampled == \E now \in NextClocks, os \in CpuOsTables : NewFrom(os, now)

\* a refresh of the study, which also records whether it has read what the
\* call before it had read
RefreshSampled ==
    \E now \in NextClocks, os \in CpuOsTables :
        /\ RefreshFrom(os, now)
        /\ repeated' = (Enumerated(os, now) = enumerated)

\* the engine under passing time and running CPU counters
NextCpu == NewSampled \/ RefreshSampled

SpecCpu == Init /\ [][NextCpu]_vars

\* The samples of the study of the CPU ratio: the processes of the editor
\* with every CPU counter up to MaxCounter
RatioSamples ==
    [commandline : { <<"sh", NUL>> }, memory_usage : { 50 },
     cpu_time : 0..MaxCounter, cgroup : { Some(EditorId) }]

RatioOsTables == UNION { [S -> RatioSamples] : S \in SUBSET Pids }

\* the time of the next enumeration, up to two ticks after the last one
RatioClocks == { now \in clock..(clock + 2) : now <= MaxTimestamp }

NewTimed == \E now \in RatioClocks, os \in RatioOsTables : NewFrom(os, now)

RefreshTimed ==
    /\ \E now \in RatioClocks, os \in RatioOsTables : RefreshFrom(os, now)
    /\ UNCHANGED repeated

\* the engine under CPU counters that run faster or slower than the clock
NextRatio == NewTimed \/ RefreshTimed

SpecRatio == Init /\ [][NextRatio]_vars

\* the engine together with the actions of the user on an App
NextActions == New \/ Refresh \/ ManipulateApp \/ ManipulateProcess \/ HandlerReturn

SpecActions == Init /\ [][NextActions]_vars

\* the refresh loop with its suspension in refresh(), failing enumerations
\* and the action channel
NextLoop ==
    \/ New
    \/ RefreshCall
    \/ RefreshReturns
    \/ RefreshFails
    \/ DispatchDuringRefresh

SpecLoop == Init /\ [][NextLoop]_vars

\* the engine's variables and those of a running handler
engine_vars ==
    <<pc, apps, processes, processes_assigned_to_apps, enumerated, repeated, clock,
      handling, res, signals, borrow, gathered, returned, handler_vars>>

\* the information button of the processes page: a detail dialog is shown
\* for the selected row and open_dialog refers to it
InformationButton ==
    /\ pc \in { "loop", "refresh" }
    /\ ~confirmation.some
    /\ \E i \in 1..Len(store) : open_dialog' = Some(ResProcessDialog(store[i]))
    /\ UNCHANGED engine_vars
    /\ UNCHANGED <<apps_store, store, confirmation, channel, response, requested,
                   memory_vars>>

\* the Action::ManipulateProcess that execute_process_action_dialog sends
ManipulateProcessMessage(action, pid) ==
    [kind |-> "ManipulateProcess", action |-> action, pid |-> pid]

\* ResProcesses::execute_process_action_dialog for the selected row (the end
\* process button and the entries of the row's menu): CONT is sent at once,
\* the other actions show the modal confirmation dialog
ExecuteProcessActionDialog ==
    /\ pc \in { "loop", "refresh" }
    /\ ~confirmation.some
    /\ \E i \in 1..Len(store), action \in ProcessAction :
          /\ requested' = Some([action |-> action, pid |-> store[i].pid])
          /\ IF action = "CONT"
             THEN /\ Len(channel) < MaxQueue
                  /\ channel' = Append(channel,
                                       ManipulateProcessMessage(action, store[i].pid))
                  /\ UNCHANGED confirmation
             ELSE /\ confirmation' = Some([action |-> action, pid |-> store[i].pid])
                  /\ UNCHANGED channel
    /\ UNCHANGED engine_vars
    /\ UNCHANGED <<apps_store, store, open_dialog, response,
                   memory_vars>>

\* the responses of the confirmation dialog: closing it responds "no"
Responses == { "yes", "no" }

\* a closure sending the message on whatever response
connect_response_any(dialog, answer, sent) ==
    Append(sent, ManipulateProcessMessage(dialog.action, dialog.pid))

\* the closure connect_response of the confirmation dialog, on the channel
connect_response(dialog, answer, sent) ==
    IF answer = "yes"
    THEN Append(sent, ManipulateProcessMessage(dialog.action, dialog.pid))
    ELSE sent

\* the confirmation dialog receives a response and goes
Response ==
    /\ pc \in { "loop", "refresh" }
    /\ confirmation.some
    /\ \E answer \in Responses :
          /\ answer = "yes" => Len(channel) < MaxQueue
          /\ response' = Some(answer)
          /\ channel' = connect_response(confirmation.val, answer, channel)
    /\ confirmation' = None
    /\ UNCHANGED engine_vars
    /\ UNCHANGED <<apps_store, store, open_dialog, requested,
                   memory_vars>>

\* the main context hands the first message of the channel to
\* MainWindow::process_action
Receive ==
    /\ channel # <<>>
    /\ channel' = Tail(channel)
    /\ \E display_name \in DisplayNames :
          ManipulateProcessOf(Head(channel).action, Head(channel).pid, display_name)
    /\ UNCHANGED <<apps_store, store, open_dialog, confirmation, response, requested,
                   memory_vars>>

\* the first message of the channel is handed over while the refresh loop is
\* suspended in refresh(): process_action panics in borrow()
ReceiveDuringRefresh ==
    /\ channel # <<>>
    /\ pc = "refresh"
    /\ borrow = "writing"
    /\ channel' = Tail(channel)
    /\ handling' = Some(Head(channel))
    /\ pc' = "panicked"
    /\ UNCHANGED <<apps, processes, processes_assigned_to_apps, enumerated,
                   repeated, clock, res, signals, borrow, gathered, returned>>
    /\ UNCHANGED handler_vars
    /\ UNCHANGED <<apps_store, store, open_dialog, confirmation, response, requested,
                   memory_vars>>

\* The samples of the study of the pages: with or without a command line,
\* inside or outside the editor's cgroup
PageSamples ==
    [commandline : CommandLines, memory_usage : { 50 },
     cpu_time : {0}, cgroup : { None, Some(EditorId) }]

PageOsTables == UNION { [S -> PageSamples] : S \in SUBSET Pids }

NewPage == \E os \in PageOsTables : NewFrom(os, clock)

RefreshReturnsPage ==
    \E os \in PageOsTables :
        /\ RefreshResume(OkOf(ProcessAll(os, clock)))
        /\ enumerated' = Enumerated(os, clock)

NextRetry ==
    \/ NewPage
    \/ RefreshCall
    \/ RefreshReturnsPage
    \/ RefreshFails
    \/ DispatchDuringRefresh

\* the refresh loop together with the detail dialog of the processes page
NextPage ==
    \/ NewPage
    \/ RefreshCall
    \/ RefreshReturnsPage
    \/ RefreshFails
    \/ InformationButton

SpecPage == Init /\ [][NextPage]_vars

\* The sample of the study of the action channel: a process with a command
\* line, of no App
ChannelSamples ==
    [commandline : { <<"sh", NUL>> }, memory_usage : { 50 },
     cpu_time : {0}, cgroup : { None }]

ChannelOsTables == UNION { [S -> ChannelSamples] : S \in SUBSET Pids }

NewChannel == \E os \in ChannelOsTables : NewFrom(os, clock)

RefreshReturnsChannel ==
    \E os \in ChannelOsTables :
        /\ RefreshResume(OkOf(ProcessAll(os, clock)))
        /\ enumerated' = Enumerated(os, clock)

\* the refresh loop together with the actions the processes page sends and
\* the main context hands to process_action
NextChannel ==
    \/ NewChannel
    \/ RefreshCall
    \/ RefreshReturnsChannel
    \/ ExecuteProcessActionDialog
    \/ Response
    \/ Receive
    \/ ReceiveDuringRefresh
    \/ HandlerReturn

SpecChannel == Init /\ [][NextChannel]_vars

\* the refresh loop on a main context that keeps running: timeout_future
\* completes after the interval and the read of the process table ends
SpecRetry ==
    /\ Init
    /\ [][NextRetry]_vars
    /\ WF_vars(RefreshCall)
    /\ WF_vars(RefreshReturnsPage \/ RefreshFails)

\* get_memory_devices reads some output of dmidecode
InitMemory ==
    /\ pc = "setup"
    /\ apps = DefaultContext.apps
    /\ processes = DefaultContext.processes
    /\ processes_assigned_to_apps = DefaultContext.processes_assigned_to_apps
    /\ enumerated = <<>>
    /\ repeated = FALSE
    /\ clock = 0
    /\ handling = None
    /\ res = <<>>
    /\ signals = <<>>
    /\ borrow = "unused"
    /\ gathered = None
    /\ returned = None
    /\ processes_unsuccessful = 0
    /\ toast_message = None
    /\ apps_store = <<>>
    /\ store = <<>>
    /\ open_dialog = None
    /\ confirmation = None
    /\ channel = <<>>
    /\ response = None
    /\ requested = None
    /\ dmi \in DmiOutputs
    /\ devices = None

\* get_memory_devices: parse_dmidecode on the output read
GetMemoryDevices ==
    /\ ~devices.some
    /\ devices' = Some(parse_dmidecode(dmi))
    /\ UNCHANGED <<engine_vars, page_vars, dmi>>

NextMemory == GetMemoryDevices

SpecMemory == InitMemory /\ [][NextMemory]_vars

(***************************************************************************)
(* Properties                                                              *)
(***************************************************************************)
\* the pids of an App's membership list
Members(id) == { apps[id].processes[i] : i \in 1..Len(apps[id].processes) }

\* the pids of the table whose Process is alive
Living == { pid \in DOMAIN processes : processes[pid].alive }

LivingMembers(id) == Members(id) \cap Living

RECURSIVE MemoryOf(_)
MemoryOf(pids) ==
    IF pids = {} THEN 0
    ELSE LET pid == CHOOSE x \in pids : TRUE
         IN processes[pid].data.memory_usage + MemoryOf(pids \ {pid})

\* C1: a pid of the process table that the enumeration read by refresh()
\* does not contain is afterwards not alive, is still returned by
\* get_process, unchanged but for the flag, and is no key of process_items().
C1_AbsentProcessMarkedDead ==
    [][ pc = "loop" =>
          \A pid \in DOMAIN processes :
              pid \notin DOMAIN enumerated' =>
                  /\ get_process(Context, pid)' =
                         Some([processes[pid] EXCEPT !.alive = FALSE])
                  /\ pid \notin DOMAIN process_items(Context)' ]_vars

\* a process with a command line has been marked dead by a refresh()
C1_Witness ==
    \E pid \in DOMAIN processes :
        /\ ~processes[pid].alive
        /\ pid \notin DOMAIN enumerated
        /\ ~is_empty(processes[pid].data.commandline)

\* no pid is in the membership lists of two Apps
AtMostOneApp ==
    \A a \in DOMAIN apps, b \in DOMAIN apps :
        a # b => Members(a) \cap Members(b) = {}

\* C2: every pid is in the membership list of at most one App, and a member
\* of an App stays a member of that App in every later state.
C2_AssignedOnce ==
    /\ []AtMostOneApp
    /\ [][ \A a \in DOMAIN apps :
              a \in DOMAIN apps' /\ Members(a) \subseteq Members(a)' ]_vars

\* a living member of an App whose latest sample names another cgroup
C2_Witness ==
    \E a \in DOMAIN apps : \E pid \in LivingMembers(a) :
        /\ processes[pid].data.cgroup # Some(a)
        /\ processes[pid].data.cgroup # None

\* C3: app_items() has exactly one entry with id = None, and its
\* processes_amount is the number of living processes minus the number of
\* living processes that are members of an App.
C3_SystemProcessesAmount ==
    LET items == app_items(Context)
        claimed == UNION { LivingMembers(id) : id \in DOMAIN apps }
    IN  /\ Cardinality({ key \in DOMAIN items : items[key].id = None }) = 1
        /\ items[None].processes_amount =
               Cardinality(Living) - Cardinality(claimed)

\* C4: every pid of a membership list is a key of the process table and an
\* element of processes_assigned_to_apps.
C4_MembersAreTracked ==
    \A id \in DOMAIN apps :
        /\ Members(id) \subseteq DOMAIN processes
        /\ Members(id) \subseteq processes_assigned_to_apps

\* an App has a member that has died and a member that a refresh() has added
C4_Witness ==
    \E id \in DOMAIN apps :
        /\ Members(id) \ Living # {}
        /\ LivingMembers(id) # {}

\* C5: a pid marked not alive that an enumeration contains again is, after
\* that refresh(), tracked as a living process with the new data, and is a
\* key of process_items() when its command line is not empty.
C5_PidReuseSelfCorrects ==
    [][ pc = "loop" =>
          \A pid \in DOMAIN processes :
              (~processes[pid].alive /\ pid \in DOMAIN enumerated') =>
                  /\ processes'[pid].alive
                  /\ processes'[pid].data = enumerated'[pid]
                  /\ ~is_empty(enumerated'[pid].commandline) =>
                         pid \in DOMAIN process_items(Context)' ]_vars

\* a ProcessItem without its cpu_time_ratio
WithoutRatio(item) ==
    [pid |-> item.pid, icon |-> item.icon, memory_usage |-> item.memory_usage,
     commandline |-> item.commandline, cgroup |-> item.cgroup]

ItemsWithoutRatio ==
    [pid \in DOMAIN process_items(Context) |->
        WithoutRatio(process_items(Context)[pid])]

\* C6: a refresh() that reads the enumeration the call before it has read
\* leaves process_items() as it is but for cpu_time_ratio, and leaves the
\* alive flags and the membership lists as they are.
C6_RepeatedRefresh ==
    [][ (pc = "loop" /\ enumerated' = enumerated) =>
          /\ ItemsWithoutRatio' = ItemsWithoutRatio
          /\ DOMAIN processes' = DOMAIN processes
          /\ \A pid \in DOMAIN processes :
                 processes'[pid].alive = processes[pid].alive
          /\ \A id \in DOMAIN apps :
                 id \in DOMAIN apps' /\ apps'[id].processes = apps[id].processes
          /\ DOMAIN apps' = DOMAIN apps ]_vars

\* a repeated read after which a living member of an App has a CPU history
\* that starts at its latest sample, beside a process that had died before
C6_Witness ==
    /\ repeated
    /\ \E id \in DOMAIN apps : \E pid \in LivingMembers(id) :
          /\ processes[pid].data.cpu_time > 0
          /\ processes[pid].cpu_time_before = processes[pid].data.cpu_time
          /\ processes[pid].cpu_time_before_timestamp =
                 processes[pid].data.cpu_time_timestamp
    /\ \E pid \in DOMAIN processes : ~processes[pid].alive

\* the pids of the enumeration read by the step that were never seen before
\* and whose cgroup is id
UnseenWithCgroup(id) ==
    { pid \in DOMAIN enumerated' \ DOMAIN processes :
        enumerated'[pid].cgroup = Some(id) }

AppAppears(id) ==
    (LivingMembers(id) = {} /\ Cardinality(UnseenWithCgroup(id)) = 1) =>
        /\ Some(id) \in DOMAIN app_items(Context)'
        /\ app_items(Context)'[Some(id)].processes_amount = 1

\* C7, as stated: when an App has no living member and refresh() reads
\* exactly one unseen pid with the App's cgroup, app_items() then has an
\* entry for the App with processes_amount = 1.
C7_NewProcessShowsApp ==
    [][ pc = "loop" => \A id \in DOMAIN apps : AppAppears(id) ]_vars

\* C7, amended: the same for every App whose id does not start with
\* "xdg-desktop-portal".
C7_NewProcessShowsVisibleApp ==
    [][ pc = "loop" =>
          \A id \in DOMAIN apps :
              ~starts_with(id, PortalPrefix) => AppAppears(id) ]_vars

\* the editor is shown with one process, its earlier member having died
C7_Witness ==
    /\ Some(EditorId) \in DOMAIN app_items(Context)
    /\ app_items(Context)[Some(EditorId)].processes_amount = 1
    /\ Members(EditorId) \ Living # {}
    /\ Cardinality(LivingMembers(EditorId)) = 1

\* the enumeration read by the step contains a process with the App's cgroup
\* that was not running before: its pid was not tracked as a living process
NewProcessWithCgroup(id) ==
    \E pid \in DOMAIN enumerated' :
        /\ enumerated'[pid].cgroup = Some(id)
        /\ pid \notin Living

\* C8: an App (one that app_items() does not hide by its id) whose members
\* have all exited is not running and has no entry in app_items(), and a
\* refresh() brings the entry back exactly when its enumeration contains a
\* new process with the App's cgroup.
C8_AppReturnsWithNewProcess ==
    [][ pc = "loop" =>
          \A id \in DOMAIN apps :
              (LivingMembers(id) = {} /\ ~starts_with(id, PortalPrefix)) =>
                  /\ ~is_running(apps[id], Context)
                  /\ Some(id) \notin DOMAIN app_items(Context)
                  /\ (Some(id) \in DOMAIN app_items(Context)') <=>
                         NewProcessWithCgroup(id) ]_vars

\* C9: the memory_usage of an App's entry in app_items() is the sum of the
\* memory usage of the App's living members.
C9_AppMemoryIsSum ==
    \A key \in DOMAIN app_items(Context) :
        key # None =>
            app_items(Context)[key].memory_usage = MemoryOf(LivingMembers(key.val))

\* the editor is shown with two living members of 100 and of 50
C9_Witness ==
    /\ Some(EditorId) \in DOMAIN app_items(Context)
    /\ app_items(Context)[Some(EditorId)].memory_usage = 150
    /\ \E p \in LivingMembers(EditorId), q \in LivingMembers(EditorId) :
          /\ processes[p].data.memory_usage = 100
          /\ processes[q].data.memory_usage = 50

\* C10: the handler's res holds one result per living member of the App
\* acted on, each the answer to that member's own signal of the action asked
\* for, whatever the answers to the other members.
C10_OneResultPerLivingMember ==
    (pc = "handler" /\ handling.val.kind = "ManipulateApp") =>
        /\ Len(res) = Cardinality(LivingMembers(handling.val.id))
        /\ Len(signals) = Len(res)
        /\ { signals[i].pid : i \in 1..Len(signals) } = LivingMembers(handling.val.id)
        /\ \A i \in 1..Len(res) :
               /\ res[i] = signals[i].result
               /\ signals[i].action = handling.val.action

\* two members were signalled: the first delivery failed, the second succeeded
C10_Witness ==
    /\ pc = "handler"
    /\ Len(res) = 2
    /\ res[1] = Err("NotPermitted")
    /\ res[2] = Ok

\* C11: a refresh() whose process enumeration fails returns the error and
\* leaves the process table (keys, alive flags, CPU history, data), every
\* membership list and processes_assigned_to_apps as they were.
C11_FailedRefreshKeepsState ==
    [][ (pc = "refresh" /\ pc' = "loop") =>
          /\ ~gathered'.val.ok <=> ~returned'.val.ok
          /\ ~gathered'.val.ok =>
                 /\ returned'.val = gathered'.val
                 /\ processes' = processes
                 /\ \A id \in DOMAIN apps :
                        id \in DOMAIN apps' /\ apps'[id].processes = apps[id].processes
                 /\ DOMAIN apps' = DOMAIN apps
                 /\ processes_assigned_to_apps' = processes_assigned_to_apps ]_vars

\* a refresh() has returned an error while a member of an App and a process
\* of no App were alive, and both still are
C11_Witness ==
    /\ pc = "loop"
    /\ returned.some /\ ~returned.val.ok
    /\ \E id \in DOMAIN apps : LivingMembers(id) # {}
    /\ \E pid \in Living : pid \notin processes_assigned_to_apps

\* C12: no message of the action channel is handled, and so no handler
\* reaches for apps_context, while a refresh() is in progress, that is while
\* the refresh loop holds the mutable borrow across the suspension.
C12_NoHandlerDuringRefresh ==
    ~(handling.some /\ borrow = "writing")

\* the CPU time spent between two samples over the time passed between
\* them, within [0, 1], and 0 when no time has passed
ClampedDeltaRatio(before, after) ==
    LET spent == after.cpu_time - before.cpu_time
        passed == after.cpu_time_timestamp - before.cpu_time_timestamp
    IN  IF passed = 0 \/ spent <= 0 THEN <<0, 1>>
        ELSE IF spent >= passed THEN <<1, 1>>
        ELSE Rational(spent, passed)

\* C13: for a pid read by two consecutive enumerations, the cpu_time_ratio
\* of its ProcessItem is within [0, 1] and is the CPU time spent between the
\* two samples over the time passed between them, clamped to [0, 1], and 0
\* when no time has passed.
C13_ProcessRatioIsClampedDelta ==
    [][ pc = "loop" =>
          \A pid \in DOMAIN enumerated \cap DOMAIN enumerated' :
              \A item \in { process_item(Context, pid)' } :
                  /\ item.some
                  /\ item.val.cpu_time_ratio =
                         ClampedDeltaRatio(enumerated[pid], enumerated'[pid])
                  /\ RatLeq(<<0, 1>>, item.val.cpu_time_ratio)
                  /\ RatLeq(item.val.cpu_time_ratio, <<1, 1>>) ]_vars

\* a living process has spent one unit of CPU time in two units of time, and
\* its ProcessItem reports one half
C13_Witness ==
    \E pid \in DOMAIN process_items(Context) :
        /\ process_items(Context)[pid].cpu_time_ratio = <<1, 2>>
        /\ processes[pid].data.cpu_time - processes[pid].cpu_time_before = 1
        /\ processes[pid].data.cpu_time_timestamp
              - processes[pid].cpu_time_before_timestamp = 2

RECURSIVE RatioOf(_)
\* the sum of the cpu_time_ratio of the processes of pids
RatioOf(pids) ==
    IF pids = {} THEN <<0, 1>>
    ELSE LET pid == CHOOSE x \in pids : TRUE
         IN RatAdd(ProcessCpuTimeRatio(processes[pid]), RatioOf(pids \ {pid}))

\* C14: App::cpu_time_ratio is the sum of the cpu_time_ratio of the App's
\* living members clamped to [0, 1]: 1 when the sum is above 1, and 0 when
\* no member is alive.
C14_AppRatioIsClampedSum ==
    \A id \in DOMAIN apps :
        LET sum == RatioOf(LivingMembers(id))
        IN  /\ cpu_time_ratio(apps[id], Context) =
                   (IF RatLeq(<<1, 1>>, sum) THEN <<1, 1>> ELSE sum)
            /\ LivingMembers(id) = {} => cpu_time_ratio(apps[id], Context) = <<0, 1>>

\* the ratios of the editor's two living members sum to three halves, and
\* the editor's cpu_time_ratio is 1
C14_Witness ==
    /\ EditorId \in DOMAIN apps
    /\ Cardinality(LivingMembers(EditorId)) = 2
    /\ RatioOf(LivingMembers(EditorId)) = <<3, 2>>
    /\ cpu_time_ratio(apps[EditorId], Context) = <<1, 1>>

\* C15: App::is_running is true exactly when some pid of the App's
\* membership list is a key of the process table whose Process is alive.
C15_RunningIffLivingMember ==
    \A id \in DOMAIN apps :
        is_running(apps[id], Context) <=>
            \E i \in 1..Len(apps[id].processes) :
                /\ apps[id].processes[i] \in DOMAIN processes
                /\ processes[apps[id].processes[i]].alive

\* an App whose members have all died is not running beside an App that is
C15_Witness ==
    \E a \in DOMAIN apps, b \in DOMAIN apps :
        /\ Members(a) # {} /\ ~is_running(apps[a], Context)
        /\ is_running(apps[b], Context)

\* C16: after new() and after every successful refresh(), every pid of the
\* enumeration just read is a key of the process table, matched to an App
\* or not.
C16_EnumeratedAreTracked ==
    pc = "loop" => DOMAIN enumerated \subseteq DOMAIN processes

\* the last enumeration holds a process of no App, read after a refresh()
\* has marked another process dead
C16_Witness ==
    /\ pc = "loop"
    /\ \E pid \in DOMAIN enumerated :
          /\ enumerated[pid].cgroup = None
          /\ pid \in Living
          /\ pid \notin processes_assigned_to_apps
    /\ \E pid \in DOMAIN processes : ~processes[pid].alive

\* C17: the key set of process_items() is the set of the pids of the process
\* table whose Process is alive and has a command line that is not empty.
C17_ProcessItemsKeys ==
    DOMAIN process_items(Context) =
        { pid \in DOMAIN processes :
            processes[pid].alive /\ Len(processes[pid].data.commandline) > 0 }

\* a living process without a command line is left out beside one that is listed
C17_Witness ==
    /\ \E pid \in Living : Len(processes[pid].data.commandline) = 0
    /\ Cardinality(DOMAIN process_items(Context)) = 1

\* C18, as stated: the memory_usage of the System Processes entry is the sum
\* of the memory usage of the living processes that are in no App's
\* membership list.
C18_SystemMemoryOfUnassigned ==
    app_items(Context)[None].memory_usage =
        MemoryOf(Living \ UNION { Members(id) : id \in DOMAIN apps })

\* C18, amended: it is the sum over the living processes that are in the
\* membership list of no App whose id does not start with "xdg-desktop-portal".
C18_SystemMemoryOfNotShown ==
    app_items(Context)[None].memory_usage =
        MemoryOf(Living \ UNION { Members(id) :
                     id \in { a \in DOMAIN apps : ~starts_with(a, PortalPrefix) } })

\* a living member of the portal is counted in System Processes, a living
\* member of the editor is not
C18_Witness ==
    /\ PortalId \in DOMAIN apps
    /\ LivingMembers(PortalId) # {}
    /\ LivingMembers(EditorId) # {}
    /\ app_items(Context)[None].memory_usage = MemoryOf(LivingMembers(PortalId))

\* C19: no step removes a key from the process table, so get_process(pid)
\* returns a Process in every state after the first that has tracked pid.
C19_KeysOnlyGrow ==
    [][ /\ DOMAIN processes \subseteq DOMAIN processes'
        /\ \A pid \in DOMAIN processes : get_process(Context, pid)'.some ]_vars

\* get_process still returns a process that the last enumeration, which has
\* read another process, does not contain
C19_Witness ==
    /\ DOMAIN enumerated # {}
    /\ \E pid \in DOMAIN processes \ DOMAIN enumerated :
          get_process(Context, pid).some

\* C20: every Process of the table has cpu_time_before_timestamp <=
\* data.cpu_time_timestamp, the timestamps of successive enumerations not
\* decreasing.
C20_HistoryNotAfterData ==
    \A pid \in DOMAIN processes :
        processes[pid].cpu_time_before_timestamp <=
            processes[pid].data.cpu_time_timestamp

\* a process whose history was moved at a later time than it was first read
C20_Witness ==
    \E pid \in DOMAIN processes :
        /\ processes[pid].cpu_time_before_timestamp > 0
        /\ processes[pid].cpu_time_before_timestamp <
               processes[pid].data.cpu_time_timestamp

\* C21: for a pid that is a key of the process table and is in the
\* enumeration read by refresh(), the call leaves cpu_time_before and
\* cpu_time_before_timestamp at what data held before, data at the fresh
\* record, and the icon and the App membership as they were.
C21_UpdateInPlace ==
    [][ pc = "loop" =>
          \A pid \in DOMAIN processes \cap DOMAIN enumerated' :
              /\ processes'[pid].cpu_time_before = processes[pid].data.cpu_time
              /\ processes'[pid].cpu_time_before_timestamp =
                     processes[pid].data.cpu_time_timestamp
              /\ processes'[pid].data = enumerated'[pid]
              /\ processes'[pid].icon = processes[pid].icon
              /\ \A id \in DOMAIN apps :
                     pid \in Members(id) <=> pid \in Members(id)' ]_vars

\* a process of no App, read again at a later time with more CPU time spent
\* and with the editor's cgroup, keeps the generic icon and belongs to no App
C21_Witness ==
    \E pid \in Living :
        /\ processes[pid].data.cgroup = Some(EditorId)
        /\ processes[pid].icon = GenericIcon
        /\ pid \notin Members(EditorId)
        /\ processes[pid].cpu_time_before < processes[pid].data.cpu_time
        /\ processes[pid].cpu_time_before_timestamp <
               processes[pid].data.cpu_time_timestamp

\* the sample read for pid shows another process than the sample read before:
\* its CPU counter has started again or it runs in another cgroup
ReusedBetween(before, after) ==
    \/ after.cpu_time < before.cpu_time
    \/ after.cgroup # before.cgroup

\* C22: when a pid is in two consecutive enumerations but held by another
\* process in the second, the row keeps its icon and App membership and its
\* cpu_time_before is the old process's last cpu_time; and at every
\* refresh() the history of a pid read twice in a row is the sample read
\* the time before, so from the following refresh() on it is the new
\* process's own.
C22_ReuseIsContinuation ==
    [][ pc = "loop" =>
          \A pid \in DOMAIN enumerated \cap DOMAIN enumerated' :
              /\ processes'[pid].cpu_time_before = enumerated[pid].cpu_time
              /\ processes'[pid].cpu_time_before_timestamp =
                     enumerated[pid].cpu_time_timestamp
              /\ processes'[pid].data = enumerated'[pid]
              /\ ReusedBetween(enumerated[pid], enumerated'[pid]) =>
                     /\ processes'[pid].icon = processes[pid].icon
                     /\ processes'[pid].alive = processes[pid].alive
                     /\ \A id \in DOMAIN apps :
                            pid \in Members(id) <=> pid \in Members(id)' ]_vars

\* a living member of the editor whose CPU counter is below its history and
\* whose cgroup is no longer the editor's: the pid has changed hands
C22_Witness ==
    \E pid \in Living :
        /\ EditorId \in DOMAIN apps
        /\ pid \in Members(EditorId)
        /\ processes[pid].icon = "editor-icon"
        /\ processes[pid].data.cgroup = None
        /\ processes[pid].data.cpu_time < processes[pid].cpu_time_before

\* C23, as stated: processes_amount and memory_usage of every App entry of
\* app_items() count the members that are alive and have a command line, so
\* processes_amount is the number of the App's members in process_items().
C23_AppItemsFilterCommandLine ==
    \A key \in DOMAIN app_items(Context) :
        key # None =>
            LET listed == LivingMembers(key.val) \cap DOMAIN process_items(Context)
            IN  /\ app_items(Context)[key].processes_amount = Cardinality(listed)
                /\ app_items(Context)[key].memory_usage = MemoryOf(listed)

\* C23, amended: they count every living member, with a command line or
\* without, so processes_amount is at least the number of the App's members
\* in process_items().
C23_AppItemsCountLivingMembers ==
    \A key \in DOMAIN app_items(Context) :
        key # None =>
            LET listed == LivingMembers(key.val) \cap DOMAIN process_items(Context)
            IN  /\ app_items(Context)[key].processes_amount =
                       Cardinality(LivingMembers(key.val))
                /\ app_items(Context)[key].memory_usage =
                       MemoryOf(LivingMembers(key.val))
                /\ app_items(Context)[key].processes_amount >= Cardinality(listed)

\* the editor is shown with two processes, one of them without a command
\* line and so not in process_items()
C23_Witness ==
    /\ Some(EditorId) \in DOMAIN app_items(Context)
    /\ app_items(Context)[Some(EditorId)].processes_amount = 2
    /\ Cardinality(LivingMembers(EditorId) \cap DOMAIN process_items(Context)) = 1

\* the identity of an App: everything but its membership list
Descriptor(app) ==
    [id |-> app.id, display_name |-> app.display_name,
     description |-> app.description, icon |-> app.icon]

\* C24: refresh() adds and removes no App and changes no App's id,
\* display_name, description or icon, so the key set of the apps table stays
\* the one new() has built.
C24_AppsAreFixed ==
    /\ [](pc = "loop" => DOMAIN apps = { a.id : a \in AllApps })
    /\ [][ pc = "loop" =>
              /\ DOMAIN apps' = DOMAIN apps
              /\ \A id \in DOMAIN apps :
                     Descriptor(apps'[id]) = Descriptor(apps[id]) ]_vars

\* a refresh() has added a member to the editor after new() had added one
C24_Witness ==
    /\ EditorId \in DOMAIN apps
    /\ apps[EditorId].processes = <<2, 1>>
    /\ Descriptor(apps[EditorId]) =
           [id |-> EditorId, display_name |-> "Editor", description |-> None,
            icon |-> "editor-icon"]

RECURSIVE TimestampsOf(_)
\* the sum of data.cpu_time_timestamp over the processes of pids
TimestampsOf(pids) ==
    IF pids = {} THEN 0
    ELSE LET pid == CHOOSE x \in pids : TRUE
         IN processes[pid].data.cpu_time_timestamp + TimestampsOf(pids \ {pid})

RECURSIVE BeforeTimestampsOf(_)
\* the sum of cpu_time_before_timestamp over the processes of pids
BeforeTimestampsOf(pids) ==
    IF pids = {} THEN 0
    ELSE LET pid == CHOOSE x \in pids : TRUE
         IN processes[pid].cpu_time_before_timestamp + BeforeTimestampsOf(pids \ {pid})

\* C30: App::cpu_time_timestamp and App::cpu_time_before_timestamp are the
\* averages (integer division) of the timestamps of the App's living members,
\* 0 for an App without members, and the common timestamp when all living
\* members share one.
C30_TimestampIsAverageOfLiving ==
    \A id \in DOMAIN apps :
        LET living == LivingMembers(id)
        IN  /\ Members(id) = {} =>
                   /\ cpu_time_timestamp(apps[id], Context) = 0
                   /\ cpu_time_before_timestamp(apps[id], Context) = 0
            /\ living # {} =>
                   /\ cpu_time_timestamp(apps[id], Context) =
                          TimestampsOf(living) \div Cardinality(living)
                   /\ cpu_time_before_timestamp(apps[id], Context) =
                          BeforeTimestampsOf(living) \div Cardinality(living)
                   /\ \A t \in 0..MaxTimestamp :
                          (\A pid \in living :
                              processes[pid].data.cpu_time_timestamp = t) =>
                                  cpu_time_timestamp(apps[id], Context) = t

\* C26: handling a ManipulateProcess message makes at most one delivery
\* attempt, to the message's pid; handling a ManipulateApp message makes
\* exactly one attempt per living member; and attempts are made only in the
\* step that receives a message, so a failed delivery is not tried again.
C26_OneAttemptPerMessage ==
    /\ [](pc = "handler" =>
            /\ handling.val.kind = "ManipulateProcess" =>
                   /\ Len(signals) <= 1
                   /\ \A i \in 1..Len(signals) :
                          /\ signals[i].pid = handling.val.pid
                          /\ signals[i].action = handling.val.action
            /\ handling.val.kind = "ManipulateApp" =>
                   /\ \A pid \in LivingMembers(handling.val.id) :
                          Cardinality({ i \in 1..Len(signals) :
                                          signals[i].pid = pid }) = 1
                   /\ \A i \in 1..Len(signals) :
                          signals[i].pid \in LivingMembers(handling.val.id))
    /\ [][ (signals' # signals /\ signals' # <<>>) =>
              /\ signals = <<>>
              /\ ~handling.some /\ handling'.some ]_vars

\* both members of an App were signalled once, both deliveries having failed
C26_Witness ==
    /\ pc = "handler"
    /\ handling.val.kind = "ManipulateApp"
    /\ Len(signals) = 2
    /\ signals[1].pid # signals[2].pid
    /\ ~signals[1].result.ok /\ ~signals[2].result.ok

\* the Ok among results
RECURSIVE Succeeded(_)
Succeeded(results) ==
    IF results = <<>> THEN 0
    ELSE (IF Head(results) = Ok THEN 1 ELSE 0) + Succeeded(Tail(results))

\* C27, as stated: for a ManipulateApp action with M attempts of which N
\* succeeded the handler's number of failures is M - N, the toast is the
\* failure message exactly when M - N > 0, and the toast tells how many of
\* the attempts succeeded: no outcome with another N gives the same toast.
C27_ToastTellsSucceeded ==
    (pc = "handler" /\ handling.val.kind = "ManipulateApp") =>
        LET M == Len(res)
            N == Succeeded(res)
        IN  /\ processes_unsuccessful = M - N
            /\ (toast_message.val[1] = "Successfully") <=> (M - N = 0)
            /\ \A tried \in 0..MaxPid : \A other \in [1..tried -> Deliveries] :
                   (app_toast_message(handling.val.action, apps[handling.val.id], other)
                      = toast_message.val) => (Succeeded(other) = N)

\* C27, amended: the toast tells how many of the attempts failed, so that
\* among the outcomes of the same M attempts the toast is the same exactly
\* for those with the same N.
C27_ToastTellsFailures ==
    (pc = "handler" /\ handling.val.kind = "ManipulateApp") =>
        LET M == Len(res)
            N == Succeeded(res)
        IN  /\ processes_unsuccessful = M - N
            /\ toast_message.some
            /\ (toast_message.val[1] \in { "There was a problem", "There were problems" })
                  <=> (M - N > 0)
            /\ toast_message.val[1] = "Successfully" <=> (M - N = 0)
            /\ \A other \in [1..M -> Deliveries] :
                   (app_toast_message(handling.val.action, apps[handling.val.id], other)
                      = toast_message.val) <=> (Succeeded(other) = N)

\* two members were signalled, one delivery failed, and the toast is the
\* singular failure message
C27_Witness ==
    /\ pc = "handler"
    /\ handling.val.kind = "ManipulateApp"
    /\ Len(res) = 2 /\ Succeeded(res) = 1
    /\ toast_message = Some(<<"There was a problem", "ending", "a process">>)

\* the rows of the processes page show the context: every living process
\* with a command line has its row with its usage, and no row is of a dead
\* process
RowsShow(rows, ctx) ==
    /\ \A pid \in DOMAIN process_items(ctx) :
           \E i \in 1..Len(rows) : rows[i] = ProcessEntry(process_items(ctx)[pid])
    /\ \A i \in 1..Len(rows) : ctx.processes[rows[i].pid].alive

\* C25: when the refresh() the loop is suspended in ends, with an error or
\* not and no message being dispatched meanwhile, the loop goes on: the
\* borrow is released, both lists are updated on the context as it then is
\* (the retained one after an error, the enumerated one after a success)
\* and the loop waits; and after an error the loop calls refresh() again.
C25_LoopSurvivesFailure ==
    /\ [][ (pc = "refresh" /\ pc' # "refresh" /\ ~handling'.some) =>
             /\ pc' = "loop"
             /\ borrow' = "unused"
             /\ apps_store' = app_items(Context')
             /\ RowsShow(store', Context')
             /\ ~returned'.val.ok => Context' = Context
             /\ returned'.val.ok =>
                    \A pid \in DOMAIN enumerated' :
                        /\ pid \in DOMAIN processes'
                        /\ processes'[pid].data = enumerated'[pid] ]_vars
    /\ (pc = "loop" /\ returned.some /\ ~returned.val.ok) ~> (pc = "refresh")

\* a refresh() has failed after one had succeeded, and the lists still show
\* the rows of the retained context
C25_Witness ==
    /\ pc = "loop"
    /\ returned.some /\ ~returned.val.ok
    /\ Len(store) = 2
    /\ EditorId \in DOMAIN apps
    /\ Some(EditorId) \in DOMAIN apps_store

\* C28, as stated: when the list of processes is updated while open_dialog
\* refers to the dialog of a process that is dead, the dialog is closed, the
\* row of the process is removed and open_dialog no longer refers to a
\* dialog of that process.
C28_DeadProcessDialogForgotten ==
    [][ (/\ pc = "refresh" /\ pc' = "loop"
         /\ open_dialog.some
         /\ ~open_dialog.val.closed
         /\ \E i \in 1..Len(store) : store[i].pid = open_dialog.val.pid
         /\ ~processes'[open_dialog.val.pid].alive) =>
          /\ open_dialog'.some => open_dialog'.val.closed
          /\ \A i \in 1..Len(store') : store'[i].pid # open_dialog.val.pid
          /\ ~(open_dialog'.some /\ open_dialog'.val.pid = open_dialog.val.pid) ]_vars

\* C29: the action channel grows by one message at a time; a message for
\* TERM, KILL or STOP is sent only in the step in which the confirmation
\* dialog of that action and pid receives "yes", and a response "no" sends
\* nothing; a call for CONT sends its message in the same step, once, with
\* no confirmation dialog before or after, and a call for another action
\* sends nothing and shows the dialog.
C29_SentOnlyOnYes ==
    [][ /\ Len(channel') <= Len(channel) + 1
        /\ Len(channel') = Len(channel) + 1 =>
              LET message == channel'[Len(channel')]
              IN /\ SubSeq(channel', 1, Len(channel)) = channel
                 /\ message.kind = "ManipulateProcess"
                 /\ IF message.action = "CONT"
                    THEN /\ ~confirmation.some /\ ~confirmation'.some
                         /\ requested' = Some([action |-> "CONT", pid |-> message.pid])
                    ELSE /\ confirmation =
                                Some([action |-> message.action, pid |-> message.pid])
                         /\ response' = Some("yes")
                         /\ ~confirmation'.some
        /\ (confirmation.some /\ ~confirmation'.some) =>
              /\ response' = Some("no") => channel' = channel
              /\ response' = Some("yes") => Len(channel') = Len(channel) + 1
        /\ (requested' # requested /\ requested'.val.action = "CONT") =>
              /\ Len(channel') = Len(channel) + 1
              /\ channel'[Len(channel')].action = "CONT"
        /\ (requested' # requested /\ requested'.val.action # "CONT") =>
              /\ channel' = channel
              /\ confirmation' = requested' ]_vars

\* KILL has been confirmed with "yes" after a CONT was asked for: both
\* messages are in the channel
C29_Witness ==
    /\ Len(channel) = 2
    /\ channel[1].action = "CONT"
    /\ channel[2].action = "KILL"
    /\ response = Some("yes")
    /\ ~confirmation.some

\* C31: refresh() never sets alive to true: a Process that is not alive
\* stays in the table and is not alive in every later state, whatever the
\* later enumerations contain.
C31_DeadStaysDead ==
    [][ \A pid \in DOMAIN processes :
           ~processes[pid].alive =>
               pid \in DOMAIN processes' /\ ~processes'[pid].alive ]_vars

\* the latest enumeration has reported the pid of a Process that was not
\* alive, and the Process is still not alive
C31_Witness ==
    /\ pc = "loop"
    /\ \E pid \in DOMAIN enumerated :
          pid \in DOMAIN processes /\ ~processes[pid].alive

\* C32: processes_assigned_to_apps is the union of the membership lists of
\* all Apps, and no pid occurs twice in the membership list of an App.
C32_AssignedIsUnionOfMembers ==
    /\ processes_assigned_to_apps = UNION { Members(id) : id \in DOMAIN apps }
    /\ \A id \in DOMAIN apps :
          \A i, j \in 1..Len(apps[id].processes) :
              apps[id].processes[i] = apps[id].processes[j] => i = j

\* an App has two members, one of them dead, and the latest enumeration
\* reports the dead member's pid in the App's cgroup again
C32_Witness ==
    /\ pc = "loop"
    /\ \E id \in DOMAIN apps :
          /\ Len(apps[id].processes) = 2
          /\ \E pid \in Members(id) :
                /\ ~processes[pid].alive
                /\ pid \in DOMAIN enumerated
                /\ enumerated[pid].cgroup = Some(id)

\* C33: every pid of processes_assigned_to_apps is a key of the process
\* table, so that refresh() never skips a new pid as already assigned: every
\* pid of an enumeration is a key of the table afterwards.
C33_AssignedAreKeys ==
    /\ [](processes_assigned_to_apps \subseteq DOMAIN processes)
    /\ [][ \A pid \in DOMAIN enumerated' : pid \in DOMAIN processes' ]_vars

\* the latest enumeration reports, outside every cgroup, the pid of a dead
\* member of an App
C33_Witness ==
    /\ pc = "loop"
    /\ \E pid \in DOMAIN enumerated \cap processes_assigned_to_apps :
          /\ ~processes[pid].alive
          /\ enumerated[pid].cgroup = None

\* C34, as stated: no signal is sent for a pid whose Process is not alive:
\* every signal a handler has had delivered is for a living process.
C34_SignalsOnlyLiving ==
    pc = "handler" => \A i \in 1..Len(signals) : signals[i].pid \in Living

\* the sum of memory_usage over the entries of items with the given keys
RECURSIVE EntriesMemory(_, _)
EntriesMemory(items, keys) ==
    IF keys = {} THEN 0
    ELSE LET key == CHOOSE k \in keys : TRUE
         IN items[key].memory_usage + EntriesMemory(items, keys \ {key})

\* C35: the memory_usage of all entries of app_items(), System Processes
\* included, adds up to the memory usage of all living processes: each
\* living process is counted in one entry, the members of an App hidden for
\* its id under System Processes.
C35_AppItemsPartitionLiving ==
    \A items \in { app_items(Context) } :
        EntriesMemory(items, DOMAIN items) = MemoryOf(Living)

\* the editor has an entry for its living member, and the portal has a
\* living member and no entry
C35_Witness ==
    /\ PortalId \in DOMAIN apps
    /\ LivingMembers(EditorId) # {}
    /\ LivingMembers(PortalId) # {}
    /\ DOMAIN app_items(Context) = { None, Some(EditorId) }

\* C36, as stated: the cpu_time_ratio of every entry of app_items(), the
\* System Processes entry included, is within [0, 1].
C36_ItemRatiosWithinUnit ==
    \A items \in { app_items(Context) } :
        \A key \in DOMAIN items :
            /\ RatLeq(<<0, 1>>, items[key].cpu_time_ratio)
            /\ RatLeq(items[key].cpu_time_ratio, <<1, 1>>)

\* C37: the list store holds at most one row per pid and every pid of a row
\* is a key of the process table; and after each update of the list the
\* store has a row for every living process with a command line (the keys
\* of process_items()) and none for a process that is not alive.
C37_StoreRowsAreSound ==
    /\ [](/\ \A i, j \in 1..Len(store) : store[i].pid = store[j].pid => i = j
          /\ \A i \in 1..Len(store) : store[i].pid \in DOMAIN processes)
    /\ [][ (pc = "refresh" /\ pc' = "loop") =>
             /\ \A pid \in DOMAIN processes' :
                   (processes'[pid].alive
                      /\ Len(processes'[pid].data.commandline) > 0) =>
                         \E i \in 1..Len(store') : store'[i].pid = pid
             /\ \A i \in 1..Len(store') : processes'[store'[i].pid].alive ]_vars

\* the row of a process that has died is gone, its detail dialog closed, and
\* the other process keeps its row
C37_Witness ==
    /\ pc = "loop"
    /\ open_dialog.some /\ open_dialog.val.closed
    /\ ~processes[open_dialog.val.pid].alive
    /\ Len(store) = 1
    /\ store[1].pid # open_dialog.val.pid

\* C38: the App of a process is decided when its pid is first inserted into
\* the table: a tracked process that is in no App is in no App after every
\* later step, also when the enumeration reports it in the cgroup of an App.
C38_AssignedAtFirstObservationOnly ==
    [][ \A pid \in DOMAIN processes :
           pid \notin UNION { Members(id) : id \in DOMAIN apps } =>
               /\ pid \notin UNION { Members(id)' : id \in DOMAIN apps' }
               /\ pid \notin processes_assigned_to_apps' ]_vars

\* a living process of no App whose latest sample is in the editor's cgroup
C38_Witness ==
    /\ EditorId \in DOMAIN apps
    /\ \E pid \in Living :
          /\ pid \notin UNION { Members(id) : id \in DOMAIN apps }
          /\ processes[pid].data.cgroup = Some(EditorId)

\* the blocks of a text that are not empty, in order: what stands between
\* blank lines, that is between pairs of line feeds
RECURSIVE BlocksFrom(_, _, _)
BlocksFrom(text, i, block) ==
    LET finished == IF block = <<>> THEN <<>> ELSE << block >>
    IN  IF i > Len(text) THEN finished
        ELSE IF i < Len(text) /\ text[i] = LF /\ text[i + 1] = LF
        THEN finished \o BlocksFrom(text, i + 2, <<>>)
        ELSE BlocksFrom(text, i + 1, Append(block, text[i]))

\* the digits of the "Speed: <digits> MT/s" entries of a block, in order
SpeedsOf(block) ==
    LET entries == SelectSeq(block, LAMBDA piece : piece.kind = SpeedLine(<<>>).kind)
    IN [k \in 1..Len(entries) |-> entries[k].digits]

\* C39, as stated: parse_dmidecode returns one MemoryDevice per block of its
\* input that is not empty, in the order of the input; a device is installed
\* exactly when its block has a "Speed: <digits> MT/s" entry, its speed is
\* then the number of the (first) entry, and is absent otherwise.
C39_OneDevicePerBlock ==
    devices.some =>
        LET blocks == BlocksFrom(dmi, 1, <<>>)
        IN  /\ devices.val.ok
            /\ Len(devices.val.val) = Len(blocks)
            /\ \A k \in 1..Len(blocks) :
                  LET device == devices.val.val[k]
                      speeds == SpeedsOf(blocks[k])
                  IN  /\ device.installed <=> speeds # <<>>
                      /\ speeds # <<>> => device.speed = Some(strip_zeros(speeds[1]))
                      /\ speeds = <<>> => device.speed = None

====
